---------------------------- MODULE Spec2Model ----------------------------
(***************************************************************************)
(* simpleRoutingPy: a host-local routing agent.  One monitor task per      *)
(* configured route probes it and writes its useable flag; the main loop   *)
(* waits for a change notification, reads the kernel table, computes a     *)
(* plan (enable_config_route) and issues ip-route commands (apply_routes). *)
(*                                                                         *)
(* Nine specifications share the operators below:                          *)
(*   Spec      the running agent: monitors, startup gate, main loop,       *)
(*             kernel commands one at a time;                              *)
(*   SpecPlan  one reconciliation pass on a configuration, usability       *)
(*             values and a kernel table drawn from bounded sets;          *)
(*   SpecCheck one health check of one route on a rule, a previous state   *)
(*             and a probe environment drawn from bounded sets;            *)
(*   SpecExit  the running agent with SIGINT and the exit's clean();       *)
(*   SpecPing  the ICMP echo requests of one probe;                        *)
(*   SpecCall  one call of add_route, remove_route or replace_route on a   *)
(*             route and a kernel table drawn from bounded sets;           *)
(*   SpecLock  the monitors' checks and the passes, with the locks held    *)
(*             at each access to the shared state;                         *)
(*   SpecStubborn  one mutator call against a kernel that keeps refusing   *)
(*             the gateway and the retry without it, with fairness;        *)
(*   SpecProbers  the probes of two routes running at the same time.       *)
(***************************************************************************)
EXTENDS Integers, Sequences, FiniteSets, TLC

VARIABLES
    config_routes,           \* list[RouteEntry] of main.py: the RouteSpecs
    kernel,                  \* the kernel routing table (set of routes)
    route_tasks,             \* per route: position of its monitor_route task
    prev_status,             \* per route: monitor_route's local prev_status
    route_initial_checks,    \* per route: its first-check asyncio.Event
    first_check_done_event,  \* asyncio.Event of main.py
    interface_change_event,  \* asyncio.Event of main.py
    main_pc,                 \* position of main_loop
    route_status,            \* context.route_status: id -> last useable
    ping_warnings,           \* context.ping_warnings
    plan,                    \* what the last enable_config_route computed
    todo,                    \* mutator calls apply_routes has still to make
    call,                    \* the mutator call in progress
    faults_left,             \* command failures the environment may still inject
    last_probe,              \* SpecCheck: the probe of the last check
    changes,                 \* per route: changes of useable no pass has read
    cleanup,                 \* the exit: the policy, what clean() read and did
    icmp_packet,             \* SpecPing: the last packet request_ping built
    accesses,                \* SpecLock: the accesses to shared state so far
    probers                  \* SpecProbers: the probes in progress, by route id

vars == << config_routes, kernel, route_tasks, prev_status,
           route_initial_checks, first_check_done_event,
           interface_change_event, main_pc, route_status, ping_warnings,
           plan, todo, call, faults_left, last_probe, changes, cleanup,
           icmp_packet, accesses, probers >>

---------------------------------------------------------------------------
(* Values *)

\* Python's None, for the optional string fields (gateway, ping_address).
NoneStr == "None"

\* config.uncached_priority
uncached_priority == 255

\* count=3 in RouteEntry.check_status's call of async_ping_with_return
ping_count == 3

\* config.app_protocal is not part of the sources at hand: the tag the agent
\* puts on the routes it installs.
app_protocal == "SimpleRouting"

\* The keys of config.app_protocals, the tags by kind of rule: not part of
\* the sources at hand either, and none here (every route gets app_protocal).
app_protocals == { }

\* config.clean_when_exit as config/config.py sets it.
clean_when_exit == FALSE

---------------------------------------------------------------------------
(* Sequence helpers *)

Range(s) == { s[i] : i \in 1..Len(s) }

\* Python's next((x for x in s if Test(x)), None): a list of 0 or 1 element.
FirstWhere(s, Test(_)) ==
    LET hits == SelectSeq(s, Test)
    IN  IF hits = << >> THEN << >> ELSE << hits[1] >>

RECURSIVE SumSeq(_)
SumSeq(s) == IF s = << >> THEN 0 ELSE Head(s) + SumSeq(Tail(s))

---------------------------------------------------------------------------
(* modules/dataclass.py: RouteRule, RouteEntry *)

\* A RouteRule; type "none" stands for rule=None.
NoRule ==
    [ type |-> "none", max_packet_loss |-> 0, max_latency_ms |-> 0,
      ping_address |-> NoneStr ]

RouteRule(type, max_packet_loss, max_latency_ms, ping_address) ==
    [ type |-> type, max_packet_loss |-> max_packet_loss,
      max_latency_ms |-> max_latency_ms, ping_address |-> ping_address ]

\* RouteEntry.__eq__ uses its own normalize_dest; modules.utilities's is the
\* same function (main.py keeps it at top level).
normalize_dest(dest) == IF dest = "default" THEN "0.0.0.0/0" ELSE dest

\* A comparison of the destinations as written.
RouteEq_literal(a, b) ==
    /\ a.destination = b.destination
    /\ a.gateway = b.gateway
    /\ a.interface = b.interface
    /\ a.metric = b.metric

\* RouteEntry.__eq__: the structural match.
RouteEq(a, b) ==
    /\ normalize_dest(a.destination) = normalize_dest(b.destination)
    /\ a.gateway = b.gateway
    /\ a.interface = b.interface
    /\ a.metric = b.metric

\* x in s, for a list of RouteEntry: Python compares with __eq__.
RouteIn(x, s) == \E i \in 1..Len(s) : RouteEq(s[i], x)

\* s.remove(x), for a list of RouteEntry: drops the first element equal
\* (__eq__) to x.
RECURSIVE RouteListRemove(_, _)
RouteListRemove(s, x) ==
    IF s = << >> THEN << >>
    ELSE IF RouteEq(Head(s), x) THEN Tail(s)
    ELSE << Head(s) >> \o RouteListRemove(Tail(s), x)

---------------------------------------------------------------------------
(* modules/ping_ng.py: check_sum, request_ping *)

\* Bytes are 0..255, a packet is a sequence of bytes.  data[i] of the code
\* is data[i + 1] here.

\* The loop of check_sum: the sum of the 16-bit words of the first n bytes,
\* the first byte of a word being its low byte.
RECURSIVE sum_words(_, _)
sum_words(data, n) ==
    IF n < 2 THEN 0
    ELSE sum_words(data, n - 2) + data[n - 1] + data[n] * 256

\* A check_sum that returns the complement without exchanging its bytes.
check_sum_unswapped(data) ==
    LET n == Len(data)
        m == n % 2
        sum_val == sum_words(data, n - m) + ( IF m = 1 THEN data[n] ELSE 0 )
        folded == ( sum_val \div 65536 ) + ( sum_val % 65536 )
        carried == folded + ( folded \div 65536 )
    IN  65535 - ( carried % 65536 )

\* check_sum: the words are summed, the carries folded in twice, the sum is
\* complemented in 16 bits and the two bytes of the result are exchanged.
check_sum(data) ==
    LET n == Len(data)
        m == n % 2
        sum_val == sum_words(data, n - m) + ( IF m = 1 THEN data[n] ELSE 0 )
        folded == ( sum_val \div 65536 ) + ( sum_val % 65536 )
        carried == folded + ( folded \div 65536 )
        answer == 65535 - ( carried % 65536 )
    IN  ( answer \div 256 ) + ( ( answer * 256 ) % 65536 )

\* struct.pack(">H", value): the high byte first.
pack_H(value) == << ( value \div 256 ) % 256, value % 256 >>

\* struct.pack(">BBHHH32s", ...); the payloads here are shorter than 32
\* bytes and the zero bytes that pad them are left out (they add nothing to
\* a sum).
pack(data_type, data_code, data_checksum, data_ID, data_Sequence, payload_body) ==
    << data_type, data_code >> \o pack_H(data_checksum) \o pack_H(data_ID)
        \o pack_H(data_Sequence) \o payload_body

\* request_ping: the packet is packed with the given checksum, check_sum is
\* taken of it, and the packet is packed again with that value.
request_ping(data_type, data_code, data_checksum, data_ID, data_Sequence, payload_body) ==
    LET icmp_checksum ==
            check_sum(pack(data_type, data_code, data_checksum, data_ID,
                           data_Sequence, payload_body))
    IN  pack(data_type, data_code, icmp_checksum, data_ID, data_Sequence,
             payload_body)

---------------------------------------------------------------------------
(* modules/ping_ng.py: ping_with_return *)

\* What the network does to one probe: a fault that ends the probe before
\* any packet is sent ("dns": gethostbyname fails, "perm": the raw socket
\* is refused, "bind": SO_BINDTODEVICE fails, "oserror": sendto raises), and
\* for each packet the round-trip time in ms of its reply, or Timeout.
Timeout == -1

NoStats ==
    [ raised |-> FALSE, sent |-> 0, received |-> 0, lost |-> 0,
      rtt_list |-> << >> ]

\* A probe that counts a packet as sent only when its reply has come.
ping_with_return_answered(count, env) ==
    IF env.fault \in {"dns", "perm", "bind"} THEN NoStats
    ELSE IF env.fault = "oserror" THEN [ NoStats EXCEPT !.raised = TRUE ]
    ELSE LET replies == SubSeq(env.replies, 1, count)
             rtts == SelectSeq(replies, LAMBDA r : r >= 0)
         IN  [ raised |-> FALSE, sent |-> Len(rtts), received |-> Len(rtts),
               lost |-> 0, rtt_list |-> rtts ]

\* The PingStats ping_with_return returns; raised: the call ends in an
\* exception instead (it catches socket.gaierror, PermissionError and the
\* setsockopt error, nothing that sendto raises).  loss_percent, min_rtt,
\* max_rtt and avg_rtt are functions of these fields, see below.
ping_with_return(count, env) ==
    IF env.fault \in {"dns", "perm", "bind"} THEN NoStats
    ELSE IF env.fault = "oserror" THEN [ NoStats EXCEPT !.raised = TRUE ]
    ELSE LET replies == SubSeq(env.replies, 1, count)
             rtts == SelectSeq(replies, LAMBDA r : r >= 0)
         IN  [ raised |-> FALSE, sent |-> count, received |-> Len(rtts),
               lost |-> count - Len(rtts), rtt_list |-> rtts ]

\* stats["loss_percent"] > x, for loss_percent = (lost / sent) * 100 if
\* sent > 0 else 0.0 (x an integer, so that the comparison is exact).
LossPercentGt(stats, x) ==
    IF stats.sent > 0 THEN stats.lost * 100 > x * stats.sent ELSE 0 > x

\* stats["loss_percent"] == x, for the same loss_percent.
LossPercentIs(stats, x) ==
    IF stats.sent > 0 THEN stats.lost * 100 = x * stats.sent ELSE 0 = x

\* stats["avg_rtt"] > num / den, for avg_rtt = sum(rtt_list) / len(rtt_list)
\* if rtt_list else 0.0.
AvgRttGt(stats, num, den) ==
    IF stats.rtt_list # << >>
    THEN SumSeq(stats.rtt_list) * den > num * Len(stats.rtt_list)
    ELSE 0 > num

---------------------------------------------------------------------------
(* modules/dataclass.py: RouteEntry.check_status *)

warning_key(route) == route.id

\* RouteEntry._handle_network_warnings: the new context.ping_warnings.
handle_network_warnings(route, stats, meet_condition, warnings) ==
    IF meet_condition
    THEN LET warning_msg ==
                 \/ LossPercentGt(stats, 0)
                 \/ AvgRttGt(stats, route.rule.max_latency_ms * 8, 10)
         IN  IF warning_msg
             THEN warnings \cup { warning_key(route) }
             ELSE warnings \ { warning_key(route) }
    ELSE warnings \ { warning_key(route) }

\* A debounce that forgets the set: it logs a warning at every degraded
\* check.  What C14 must tell from the test of the set.
network_warning_log_repeat(route, stats, meet_condition, warnings) ==
    IF meet_condition
       /\ ( \/ LossPercentGt(stats, 0)
            \/ AvgRttGt(stats, route.rule.max_latency_ms * 8, 10) )
    THEN "warning" ELSE "none"

\* RouteEntry._handle_network_warnings: the line it logs, "warning"
\* (logger.warning of the network warning), "recovered" (logger.info of the
\* recovery) or "none".
network_warning_log(route, stats, meet_condition, warnings) ==
    IF meet_condition
    THEN LET warning_msg ==
                 \/ LossPercentGt(stats, 0)
                 \/ AvgRttGt(stats, route.rule.max_latency_ms * 8, 10)
         IN  IF warning_msg
             THEN IF warning_key(route) \notin warnings
                  THEN "warning" ELSE "none"
             ELSE IF warning_key(route) \in warnings
                  THEN "recovered" ELSE "none"
    ELSE "none"

\* The probe target: self.rule.ping_address or self.gateway.
ping_target(route) ==
    IF route.rule.ping_address # NoneStr THEN route.rule.ping_address
    ELSE route.gateway

\* Whether check_status gets as far as the probe.
probes(route) ==
    /\ route.rule.type = "ping"
    /\ ping_target(route) # NoneStr

\* Thresholds that a probe must stay strictly below.
meets_condition_exclusive(route, stats) ==
    /\ ~ LossPercentGt(stats, route.rule.max_packet_loss)
    /\ ~ LossPercentIs(stats, route.rule.max_packet_loss)
    /\ ~ AvgRttGt(stats, route.rule.max_latency_ms - 1, 1)

meets_condition(route, stats) ==
    /\ ~ LossPercentGt(stats, route.rule.max_packet_loss)
    /\ ~ AvgRttGt(stats, route.rule.max_latency_ms, 1)

\* RouteEntry.check_status on the probe environment env: the value it
\* returns, the route's useable afterwards, context.ping_warnings
\* afterwards and the warning line it logs.  The early returns leave
\* useable as it is.
check_status(route, env, warnings) ==
    IF ~ probes(route)
    THEN [ returned |-> TRUE, useable |-> route.useable,
           ping_warnings |-> warnings, log |-> "none" ]
    ELSE LET stats == ping_with_return(ping_count, env)
         IN  IF stats.raised
             THEN [ returned |-> FALSE, useable |-> FALSE,
                    ping_warnings |-> warnings, log |-> "none" ]
             ELSE LET meet_condition == meets_condition(route, stats)
                  IN  [ returned |-> meet_condition,
                        useable |-> meet_condition,
                        ping_warnings |->
                            handle_network_warnings(route, stats,
                                                    meet_condition, warnings),
                        log |->
                            network_warning_log(route, stats,
                                                meet_condition, warnings) ]

---------------------------------------------------------------------------
(* The kernel routing table, as the ip-route commands of modules/routing.py
   see it.  A route is [destination, gateway, interface, metric, proto];
   the table holds at most one route for a destination and a metric. *)

\* The order in which `ip route` lists destinations.
DestOrder == << "default", "10.0.0.0/8" >>

DestRank(dest) == CHOOSE i \in 1..Len(DestOrder) : DestOrder[i] = dest

\* `ip route` prints 0.0.0.0/0 as default.
KernelDest(dest) == IF dest = "0.0.0.0/0" THEN "default" ELSE dest

KernelBefore(a, b) ==
    \/ DestRank(a.destination) < DestRank(b.destination)
    \/ /\ a.destination = b.destination
       /\ a.metric < b.metric

\* The lines of `ip route`: by destination, then by metric.
RECURSIVE KernelLines(_)
KernelLines(table) ==
    IF table = { } THEN << >>
    ELSE LET first == CHOOSE r \in table :
                          \A o \in table \ { r } : KernelBefore(r, o)
         IN  << first >> \o KernelLines(table \ { first })

\* get_ip_route: one RouteEntry per line with a device, the id numbered by
\* line from 0, priority 0, no rule (useable is None and never read).
get_ip_route(table) ==
    LET lines == KernelLines(table)
    IN  [ i \in 1..Len(lines) |->
            [ id |-> "sys_route" \o ToString(i - 1),
              destination |-> lines[i].destination,
              gateway |-> lines[i].gateway,
              interface |-> lines[i].interface,
              metric |-> lines[i].metric,
              priority |-> 0,
              proto |-> lines[i].proto,
              rule |-> NoRule ] ]

\* The route a command `ip route add|replace ...` describes.
CmdRoute(cmd) ==
    [ destination |-> KernelDest(cmd.dest), gateway |-> cmd.gateway,
      interface |-> cmd.interface, metric |-> cmd.metric,
      proto |-> cmd.proto ]

SameKey(r, cmd) ==
    /\ r.destination = KernelDest(cmd.dest)
    /\ r.metric = cmd.metric

\* The routes `ip route del dest [via gw] dev if` selects.
DelMatches(table, cmd) ==
    { r \in table :
        /\ r.destination = KernelDest(cmd.dest)
        /\ cmd.gateway # NoneStr => r.gateway = cmd.gateway
        /\ r.interface = cmd.interface }

\* Whether the table lets the command succeed: add needs a free
\* destination and metric (else "File exists"), del a route to delete
\* (else "No such process").
KernelAccepts(table, cmd) ==
    CASE cmd.verb = "add" -> ~ \E r \in table : SameKey(r, cmd)
      [] cmd.verb = "replace" -> TRUE
      [] cmd.verb = "del" -> DelMatches(table, cmd) # { }

\* The table after the command has succeeded.  del deletes the selected
\* route of the lowest metric.
KernelApply(table, cmd) ==
    CASE cmd.verb = "add" -> table \cup { CmdRoute(cmd) }
      [] cmd.verb = "replace" ->
            { r \in table : ~ SameKey(r, cmd) } \cup { CmdRoute(cmd) }
      [] cmd.verb = "del" ->
            LET hits == DelMatches(table, cmd)
                gone == CHOOSE r \in hits :
                            \A o \in hits : r.metric <= o.metric
            IN  table \ { gone }

\* The classes of a command's outcome: success, or the three classes the
\* mutator tells apart by the error text.
Ok == "ok"
InvalidGateway == "invalid_gateway"
RouteNotFound == "not_found"
OtherError == "other"

---------------------------------------------------------------------------
(* modules/apply_routing.py: enable_config_route *)

\* The first loop: route_status after every route's current useable has
\* been compared with the recorded one.  A value is << >> (no entry) or
\* << b >>.
RECURSIVE track_status(_, _)
track_status(status, routes) ==
    IF routes = << >> THEN status
    ELSE LET route == Head(routes)
             current == route.useable
             previous == status[route.id]
             updated ==
                 IF previous = << >> \/ previous # << current >>
                 THEN [ status EXCEPT ![route.id] = << current >> ]
                 ELSE status
         IN  track_status(updated, Tail(routes))

\* What the first loop logs for one route: the first pass that sees the
\* route logs its state, a later pass logs a change of the recorded value.
status_event(previous, current) ==
    IF previous = << >>
    THEN IF current THEN "online" ELSE "unavailable"
    ELSE IF previous # << current >>
         THEN IF current THEN "recovered" ELSE "failed"
         ELSE "none"

\* The events of one pass, by position in config_routes.
RECURSIVE status_events(_, _)
status_events(status, routes) ==
    IF routes = << >> THEN << >>
    ELSE LET route == Head(routes)
         IN  << status_event(status[route.id], route.useable) >>
             \o status_events(track_status(status, << route >>), Tail(routes))

\* A map that gives an unmatched kernel route priority 0.
sys_route_config_map_zero(ip_routes, routes) ==
    [ id \in { ip_routes[i].id : i \in 1..Len(ip_routes) } |->
        LET sys_route == CHOOSE sr \in Range(ip_routes) : sr.id = id
            matched_config ==
                FirstWhere(routes, LAMBDA cr : RouteEq(cr, sys_route))
        IN  IF matched_config # << >> THEN matched_config[1].priority
            ELSE 0 ]

\* sys_route_config_map: for each kernel route the priority of the first
\* RouteSpec equal (__eq__) to it, or uncached_priority.
sys_route_config_map(ip_routes, routes) ==
    [ id \in { ip_routes[i].id : i \in 1..Len(ip_routes) } |->
        LET sys_route == CHOOSE sr \in Range(ip_routes) : sr.id = id
            matched_config ==
                FirstWhere(routes, LAMBDA cr : RouteEq(cr, sys_route))
        IN  IF matched_config # << >> THEN matched_config[1].priority
            ELSE uncached_priority ]

\* A grouping loop that also marks the routes it rewrites as usable.
rewrite_default_usable(routes) ==
    [ i \in 1..Len(routes) |->
        IF routes[i].destination = "0.0.0.0/0"
        THEN [ routes[i] EXCEPT !.destination = "default", !.useable = TRUE ]
        ELSE routes[i] ]

\* The grouping loop rewrites destination 0.0.0.0/0 to default in place.
rewrite_default(routes) ==
    [ i \in 1..Len(routes) |->
        IF routes[i].destination = "0.0.0.0/0"
        THEN [ routes[i] EXCEPT !.destination = "default" ]
        ELSE routes[i] ]

\* The keys of destinations2routes, in the order a dict keeps them: by
\* first appearance.
group_keys(routes) ==
    LET firsts == SelectSeq([ i \in 1..Len(routes) |-> i ],
                     LAMBDA i : \A j \in 1..(i - 1) :
                         routes[j].destination # routes[i].destination)
    IN  [ k \in 1..Len(firsts) |-> routes[firsts[k]].destination ]

\* destinations2routes[dest]
group_of(routes, dest) == SelectSeq(routes, LAMBDA r : r.destination = dest)

\* A selection that leaves each group in configuration order: what C1 must
\* tell from the sort.
sorted_by_priority_unsorted(routes) == routes

\* sorted(routes, key=lambda x: x.priority): stable, ascending.
RECURSIVE sorted_by_priority(_)
sorted_by_priority(routes) ==
    IF routes = << >> THEN << >>
    ELSE LET r == routes[Len(routes)]
             before == sorted_by_priority(SubSeq(routes, 1, Len(routes) - 1))
         IN  SelectSeq(before, LAMBDA x : x.priority <= r.priority)
             \o << r >>
             \o SelectSeq(before, LAMBDA x : x.priority > r.priority)

\* A selection that takes the head of the sorted group whether or not it is
\* usable: what C34 must tell from the selection among the usable ones.
select_available_head(sorted_routes) ==
    IF sorted_routes # << >> THEN << sorted_routes[1] >> ELSE << >>

\* available[0] of one group, as a list of 0 or 1 route.
select_available(sorted_routes) ==
    LET available == SelectSeq(sorted_routes, LAMBDA r : r.useable)
    IN  IF available # << >> THEN << available[1] >> ELSE << >>

\* The selection loop over the groups: selected_routes and failed_routes.
RECURSIVE select_routes(_, _)
select_routes(routes, keys) ==
    IF keys = << >> THEN [ selected |-> << >>, failed |-> << >> ]
    ELSE LET sorted_routes == sorted_by_priority(group_of(routes, Head(keys)))
             rest == select_routes(routes, Tail(keys))
         IN  [ selected |-> select_available(sorted_routes) \o rest.selected,
               failed |->
                   SelectSeq(sorted_routes, LAMBDA r : ~ r.useable)
                   \o rest.failed ]

\* A search that finds no kernel route for any candidate.
matched_by_destination_none(ip_routes, candidate) == << >>

\* matched_sys of a candidate: the first kernel route to its destination.
matched_by_destination(ip_routes, candidate) ==
    FirstWhere(ip_routes,
        LAMBDA sr : normalize_dest(sr.destination)
                        = normalize_dest(candidate.destination))

\* A test that also replaces a route of the candidate's own priority: what
\* C10 must tell from the strict comparison.
is_better_or_equal(candidate, sys_prio) == candidate.priority <= sys_prio

\* The test that turns a candidate with a matched kernel route into a
\* replacement of that route.
is_better(candidate, sys_prio) == candidate.priority < sys_prio

\* The decision loop over selected_routes.
RECURSIVE decide(_, _, _, _)
decide(selected, ip_routes, prio_map, acc) ==
    IF selected = << >> THEN acc
    ELSE LET candidate == Head(selected)
             matched_sys == matched_by_destination(ip_routes, candidate)
             next ==
                 IF matched_sys # << >>
                 THEN IF is_better(candidate, prio_map[matched_sys[1].id])
                      THEN [ acc EXCEPT
                               !.remove = Append(@, matched_sys[1]),
                               !.inject = Append(@, candidate) ]
                      ELSE [ acc EXCEPT !.existing = Append(@, candidate) ]
                 ELSE [ acc EXCEPT !.inject = Append(@, candidate) ]
         IN  decide(Tail(selected), ip_routes, prio_map, next)

\* A pass that leaves the routes of failed specs alone: what C11 must tell
\* from the loop over failed_routes.
remove_failed_none(failed_routes, ip_routes, remove_routes) == remove_routes

\* The loop over failed_routes: remove_routes afterwards.
RECURSIVE remove_failed(_, _, _)
remove_failed(failed_routes, ip_routes, remove_routes) ==
    IF failed_routes = << >> THEN remove_routes
    ELSE LET failed == Head(failed_routes)
             matched_sys ==
                 FirstWhere(ip_routes, LAMBDA sr : RouteEq(sr, failed))
             next ==
                 IF matched_sys # << >> /\ ~ RouteIn(matched_sys[1], remove_routes)
                 THEN Append(remove_routes, matched_sys[1])
                 ELSE remove_routes
         IN  remove_failed(Tail(failed_routes), ip_routes, next)

\* enable_config_route up to its call of apply_routes: the RouteSpecs as it
\* leaves them and the four lists it logs.
make_plan(ip_routes, routes) ==
    LET prio_map == sys_route_config_map(ip_routes, routes)
        rewritten == rewrite_default(routes)
        chosen == select_routes(rewritten, group_keys(rewritten))
        decided == decide(chosen.selected, ip_routes, prio_map,
                       [ inject |-> << >>, remove |-> << >>,
                         existing |-> << >> ])
    IN  [ config_routes |-> rewritten,
          ip_routes |-> ip_routes,
          sys_route_config_map |-> prio_map,
          selected |-> chosen.selected,
          failed |-> chosen.failed,
          inject |-> decided.inject,
          remove |-> remove_failed(chosen.failed, ip_routes, decided.remove),
          existing |-> decided.existing ]

---------------------------------------------------------------------------
(* modules/apply_routing.py: apply_routes *)

\* An inner loop that finds no partner: what C12 must tell from the pairing.
pair_for_none(a, inject_routes_copy) == << >>

\* The inner loop for one removal a: the first route b of
\* inject_routes_copy to a's destination, as a list of 0 or 1 route.
pair_for(a, inject_routes_copy) ==
    FirstWhere(inject_routes_copy,
        LAMBDA b : normalize_dest(a.destination)
                       = normalize_dest(b.destination))

\* The pairing loop over remove_routes_copy.  st holds replace_inject,
\* replace_remove, remove_routes, inject_routes and inject_routes_copy.
RECURSIVE pair_routes(_, _)
pair_routes(remove_routes_copy, st) ==
    IF remove_routes_copy = << >> THEN st
    ELSE LET a == Head(remove_routes_copy)
             found == pair_for(a, st.inject_routes_copy)
             next ==
                 IF found = << >> THEN st
                 ELSE LET b == found[1]
                      IN  [ replace_inject |-> Append(st.replace_inject, b),
                            replace_remove |-> Append(st.replace_remove, a),
                            remove_routes |->
                                IF RouteIn(a, st.remove_routes)
                                THEN RouteListRemove(st.remove_routes, a)
                                ELSE st.remove_routes,
                            inject_routes |->
                                IF RouteIn(b, st.inject_routes)
                                THEN RouteListRemove(st.inject_routes, b)
                                ELSE st.inject_routes,
                            inject_routes_copy |->
                                RouteListRemove(st.inject_routes_copy, b) ]
         IN  pair_routes(Tail(remove_routes_copy), next)

Calls(fn, routes) == [ i \in 1..Len(routes) |-> [ fn |-> fn, route |-> routes[i] ] ]

\* An apply that adds the injections left before it removes.
apply_routes_adds_first(inject_routes, remove_routes) ==
    LET paired == pair_routes(remove_routes,
                      [ replace_inject |-> << >>, replace_remove |-> << >>,
                        remove_routes |-> remove_routes,
                        inject_routes |-> inject_routes,
                        inject_routes_copy |-> inject_routes ])
    IN  Calls("replace", paired.replace_inject)
        \o Calls("add", paired.inject_routes)
        \o Calls("remove", paired.remove_routes)

\* apply_routes: the mutator calls it makes, in order: replace_route for
\* the paired injections, remove_route for the removals left, add_route
\* for the injections left.
apply_routes(inject_routes, remove_routes) ==
    LET paired == pair_routes(remove_routes,
                      [ replace_inject |-> << >>, replace_remove |-> << >>,
                        remove_routes |-> remove_routes,
                        inject_routes |-> inject_routes,
                        inject_routes_copy |-> inject_routes ])
    IN  Calls("replace", paired.replace_inject)
        \o Calls("remove", paired.remove_routes)
        \o Calls("add", paired.inject_routes)

---------------------------------------------------------------------------
(* modules/routing.py: add_route, remove_route, replace_route *)

\* dest of the three functions: default becomes 0.0.0.0/0.
cmd_dest(route) ==
    IF route.destination = "default" THEN "0.0.0.0/0" ELSE route.destination

\* The protocol tag of the command.  config.app_protocals (config/protocal.py)
\* is not among the sources; every route gets the default tag here.
cmd_protocol(route) == app_protocal

\* cmd of add_route and replace_route; via is there when the route has a
\* gateway and the retry has not removed it.
install_cmd(verb, route, with_via) ==
    [ verb |-> verb, dest |-> cmd_dest(route),
      gateway |-> IF with_via THEN route.gateway ELSE NoneStr,
      interface |-> route.interface,
      proto |-> cmd_protocol(route),
      metric |-> IF route.metric > 0 THEN route.metric ELSE 0 ]

\* cmd of remove_route: no protocol, no metric.
remove_cmd(route) ==
    [ verb |-> "del", dest |-> cmd_dest(route), gateway |-> route.gateway,
      interface |-> route.interface, proto |-> NoneStr, metric |-> 0 ]

\* A mutator call in progress: fn is the function that is running, retry
\* whether it is at its second subprocess.run (the one without via).
\* NoCall: none in progress.
NoCall == [ fn |-> "none" ]

StartCall(c) == [ fn |-> c.fn, route |-> c.route, retry |-> FALSE ]

\* A call whose command goes to the other destination.
call_cmd_elsewhere(c) ==
    LET elsewhere ==
            [ c.route EXCEPT
                !.destination = IF normalize_dest(@) = "0.0.0.0/0"
                                THEN "10.0.0.0/8" ELSE "default" ]
    IN  CASE c.fn = "add" -> install_cmd("add", elsewhere, ~ c.retry)
          [] c.fn = "replace" -> install_cmd("replace", elsewhere, ~ c.retry)
          [] c.fn = "remove" -> remove_cmd(elsewhere)

\* The command the call runs next.
call_cmd(c) ==
    CASE c.fn = "add" -> install_cmd("add", c.route, ~ c.retry)
      [] c.fn = "replace" -> install_cmd("replace", c.route, ~ c.retry)
      [] c.fn = "remove" -> remove_cmd(c.route)

Return(value) == [ fn |-> "return", value |-> value ]

\* add_route after its command ended in result.
add_route(c, result) ==
    IF ~ c.retry
    THEN CASE result = Ok -> Return(TRUE)
           [] result = InvalidGateway -> [ c EXCEPT !.retry = TRUE ]
           [] OTHER -> Return(FALSE)
    ELSE CASE result = Ok -> Return(TRUE)
           [] result = RouteNotFound -> [ c EXCEPT !.fn = "add", !.retry = FALSE ]
           [] OTHER -> Return(FALSE)

\* A remove_route that runs its command a second time after a failure.
remove_route_again(c, result) ==
    IF result = Ok \/ c.retry THEN Return(result = Ok)
    ELSE [ c EXCEPT !.retry = TRUE ]

\* remove_route after its command ended in result.
remove_route(c, result) == Return(result = Ok)

\* A replace_route that gives up when the route is not there.
replace_route_no_fallback(c, result) ==
    IF ~ c.retry
    THEN CASE result = Ok -> Return(TRUE)
           [] result = InvalidGateway -> [ c EXCEPT !.retry = TRUE ]
           [] OTHER -> Return(FALSE)
    ELSE Return(result = Ok)

\* replace_route after its command ended in result.
replace_route(c, result) ==
    IF ~ c.retry
    THEN CASE result = Ok -> Return(TRUE)
           [] result = RouteNotFound -> [ c EXCEPT !.fn = "add", !.retry = FALSE ]
           [] result = InvalidGateway -> [ c EXCEPT !.retry = TRUE ]
           [] OTHER -> Return(FALSE)
    ELSE CASE result = Ok -> Return(TRUE)
           [] result = RouteNotFound -> [ c EXCEPT !.fn = "add", !.retry = FALSE ]
           [] OTHER -> Return(FALSE)

\* The call after its command ended in result.
call_step(c, result) ==
    CASE c.fn = "add" -> add_route(c, result)
      [] c.fn = "replace" -> replace_route(c, result)
      [] c.fn = "remove" -> remove_route(c, result)

---------------------------------------------------------------------------
(* Bounds and the sets the inputs are drawn from *)

\* Command failures the environment injects in one behaviour (a failure
\* the table forces, such as "File exists", is not counted).
MaxFaults == 1

\* Routes in the kernel table at the start.
MaxTable == 2

\* gateway and interface of a path
Paths ==
    { [ gateway |-> "10.0.0.1", interface |-> "eth0" ],
      [ gateway |-> "10.1.0.1", interface |-> "eth1" ] }

Metrics == { 0, 100 }

Priorities == { 10, 20 }

\* A ping rule: at most 50 % loss, at most 100 ms, probing the gateway.
PingRule == RouteRule("ping", 50, 100, NoneStr)

\* load_route_config's RouteEntry for one entry of the file; proto is the
\* rule's type when there is a rule.
RouteEntry(id, destination, path, metric, priority, rule, useable) ==
    [ id |-> id, destination |-> destination, gateway |-> path.gateway,
      interface |-> path.interface, metric |-> metric,
      priority |-> priority,
      proto |-> IF rule.type = "none" THEN NoneStr ELSE rule.type,
      rule |-> rule, useable |-> useable ]

\* The routes a kernel table may hold at the start, and the tables.
KernelRoutes ==
    { [ destination |-> d, gateway |-> p.gateway, interface |-> p.interface,
        metric |-> m, proto |-> "static" ] :
        d \in Range(DestOrder), p \in Paths, m \in Metrics }

KernelTables ==
    { t \in SUBSET KernelRoutes :
        /\ Cardinality(t) <= MaxTable
        /\ \A r, o \in t :
             (r.destination = o.destination /\ r.metric = o.metric) => r = o }

Ids(routes) == { routes[i].id : i \in 1..Len(routes) }

RouteById(routes, id) == CHOOSE i \in 1..Len(routes) : routes[i].id = id

NoPlan == [ ran |-> FALSE ]

NoProbe == [ fault |-> "unset" ]

\* request_ping has built no packet.
NoPacket == [ built |-> FALSE ]

\* No probe is in progress.
NoProbers == << >>

\* clean() has not run; enabled is config.clean_when_exit.
NoCleanup(enabled) == [ enabled |-> enabled, ran |-> FALSE ]

---------------------------------------------------------------------------
(* main.py: the monitors *)

\* The count of unread changes is kept up to this bound.
MaxChanges == 2

\* The probe environments of one check: a fault, or a reply or a timeout
\* for each of the ping_count packets.
Faults == { "dns", "perm", "bind", "oserror" }

ProbeEnvs ==
    { [ fault |-> f, replies |-> << >> ] : f \in Faults }
    \cup { [ fault |-> "none", replies |-> r ] :
             r \in [ 1..ping_count -> { Timeout, 50, 150 } ] }

\* The environments the agent's monitors meet: every fault, and of the
\* replies one case of each kind (all lost, one lost, all fast, all slow).
AgentProbeEnvs ==
    { [ fault |-> f, replies |-> << >> ] : f \in Faults }
    \cup { [ fault |-> "none", replies |-> r ] :
             r \in { << Timeout, Timeout, Timeout >>, << 50, 50, Timeout >>,
                     << 50, 50, 50 >>, << 150, 150, 150 >> } }

\* A main_loop that lets the monitors run between the commands of a pass:
\* what C40 must tell from a pass without await.
MainSuspended_in_pass == main_pc \in { "gather", "wait", "apply" }

\* The event loop runs one task at a time and a pass makes no await between
\* interface_change_event.clear() and the return of enable_config_route: a
\* monitor runs only while main_loop is suspended at an await.
MainSuspended == main_pc \in { "gather", "wait" }

\* main_loop is suspended at an await that is already satisfied: its
\* wake-up is in the event loop's ready queue.
MainRunnable(pc, gates, event) ==
    \/ pc = "gather" /\ \A id \in DOMAIN gates : gates[id]
    \/ pc = "wait" /\ event

\* Where a monitor is after a check.  Its next check ends after a probe and
\* a sleep, which take time, while a wake-up of main_loop that is already
\* queued runs first: the monitor is then behind main_loop ("sleep").
after_check(pc, gates, event) ==
    IF MainRunnable(pc, gates, event) THEN "sleep" ELSE "loop"

\* The monitor can end a check of its loop: it is in the loop and not
\* behind a queued wake-up of main_loop.
CanCheck(id) == MainSuspended /\ route_tasks[id] = "loop"

\* main_loop has run: the monitors behind it can run again.
woken(tasks) ==
    [ id \in DOMAIN tasks |-> IF tasks[id] = "sleep" THEN "loop" ELSE tasks[id] ]

\* The changes of a route's useable that no pass has read yet, after one more.
one_more(n) == IF n < MaxChanges THEN n + 1 ELSE n

\* A monitor that never sees a change: what C6 must tell from the
\* comparison.
status_changed_never(useable, prev) == FALSE

\* The comparison of monitor_route's loop: route.useable != prev_status.
status_changed(useable, prev) == useable # prev

SetUseable(routes, id, value) ==
    [ routes EXCEPT ![RouteById(routes, id)].useable = value ]

\* continuous_route_check up to its gather: one task and one first-check
\* event for each route.
StartMonitors ==
    /\ main_pc = "start"
    /\ route_tasks' = [ id \in Ids(config_routes) |-> "first_check" ]
    /\ route_initial_checks' = [ id \in Ids(config_routes) |-> FALSE ]
    /\ main_pc' = "gather"
    /\ UNCHANGED << config_routes, kernel, prev_status,
                    first_check_done_event, interface_change_event,
                    route_status, ping_warnings, plan, todo, call,
                    faults_left, last_probe, changes, cleanup, icmp_packet, accesses, probers >>

\* monitor_route from its start to the await inside the loop's first
\* check_status (or, for a route that is not probed, to the loop's sleep).
FirstCheck(id, env) ==
    /\ MainSuspended
    /\ route_tasks[id] = "first_check"
    /\ LET route == config_routes[RouteById(config_routes, id)]
           res == check_status(route, env, ping_warnings)
       IN  /\ config_routes' = SetUseable(config_routes, id, res.useable)
           /\ ping_warnings' = res.ping_warnings
           /\ prev_status' = [ prev_status EXCEPT ![id] = res.useable ]
    /\ route_initial_checks' = [ route_initial_checks EXCEPT ![id] = TRUE ]
    /\ interface_change_event' = TRUE
    /\ route_tasks' =
           [ route_tasks EXCEPT
               ![id] = after_check(main_pc, route_initial_checks', TRUE) ]
    /\ UNCHANGED << kernel, first_check_done_event, main_pc, route_status,
                    plan, todo, call, faults_left, last_probe, changes, cleanup, icmp_packet, accesses, probers >>

\* One turn of monitor_route's loop: the check, the comparison with
\* prev_status, the sleep.
LoopCheck(id, env) ==
    /\ CanCheck(id)
    /\ LET route == config_routes[RouteById(config_routes, id)]
           res == check_status(route, env, ping_warnings)
       IN  /\ config_routes' = SetUseable(config_routes, id, res.useable)
           /\ ping_warnings' = res.ping_warnings
           /\ IF status_changed(res.useable, prev_status[id])
              THEN /\ interface_change_event' = TRUE
                   /\ prev_status' = [ prev_status EXCEPT ![id] = res.useable ]
              ELSE UNCHANGED << interface_change_event, prev_status >>
           /\ changes' =
                  IF res.useable # route.useable
                  THEN [ changes EXCEPT ![id] = one_more(changes[id]) ]
                  ELSE changes
    /\ route_tasks' =
           [ route_tasks EXCEPT
               ![id] = after_check(main_pc, route_initial_checks,
                                   interface_change_event') ]
    /\ UNCHANGED << kernel, route_initial_checks,
                    first_check_done_event, main_pc, route_status, plan,
                    todo, call, faults_left, last_probe, cleanup, icmp_packet, accesses, probers >>

\* monitor_route's except branch: an exception that check_status did not
\* catch itself ends the task; the first-check event is set on the way.
MonitorRaises(id) ==
    /\ MainSuspended
    /\ route_tasks[id] = "first_check" \/ CanCheck(id)
    /\ route_initial_checks' = [ route_initial_checks EXCEPT ![id] = TRUE ]
    /\ route_tasks' = [ route_tasks EXCEPT ![id] = "failed" ]
    /\ UNCHANGED << config_routes, kernel, prev_status,
                    first_check_done_event, interface_change_event, main_pc,
                    route_status, ping_warnings, plan, todo, call,
                    faults_left, last_probe, changes, cleanup, icmp_packet, accesses, probers >>

---------------------------------------------------------------------------
(* main.py: main_loop *)

\* The end of continuous_route_check and main_loop up to the wait for
\* interface_change_event: every first-check event is set.
GatherDone ==
    /\ main_pc = "gather"
    /\ \A id \in Ids(config_routes) : route_initial_checks[id]
    /\ first_check_done_event' = TRUE
    /\ main_pc' = "wait"
    /\ UNCHANGED << config_routes, kernel, route_tasks, prev_status,
                    route_initial_checks, interface_change_event,
                    route_status, ping_warnings, plan, todo, call,
                    faults_left, last_probe, changes, cleanup, icmp_packet, accesses, probers >>

\* One pass of the loop up to apply_routes's first command: clear the
\* event, read the kernel table, enable_config_route (status tracking,
\* plan, pairing).  plan keeps what the pass read (the RouteSpecs, the
\* kernel table, where each monitor was), the lists it made and, as the
\* commands end, their results.
ReconcilePass ==
    /\ main_pc = "wait"
    /\ first_check_done_event
    /\ interface_change_event
    /\ interface_change_event' = FALSE
    /\ LET ip_routes == get_ip_route(kernel)
           p == make_plan(ip_routes, config_routes)
           calls == apply_routes(p.inject, p.remove)
       IN  /\ route_status' = track_status(route_status, config_routes)
           /\ config_routes' = p.config_routes
           /\ route_tasks' = woken(route_tasks)
           /\ changes' = [ id \in DOMAIN changes |-> 0 ]
           /\ plan' = [ ran |-> TRUE, read |-> config_routes,
                        before |-> route_status, changes |-> changes,
                        events |-> status_events(route_status, config_routes),
                        ip_routes |-> ip_routes,
                        sys_route_config_map |-> p.sys_route_config_map,
                        selected |-> p.selected,
                        failed |-> p.failed, inject |-> p.inject,
                        remove |-> p.remove, existing |-> p.existing,
                        calls |-> calls, table |-> kernel,
                        tasks |-> woken(route_tasks), results |-> << >>,
                        cmds |-> << >>, returned |-> << >> ]
           /\ IF calls = << >>
              THEN /\ main_pc' = "wait"
                   /\ call' = NoCall
                   /\ todo' = << >>
              ELSE /\ main_pc' = "apply"
                   /\ call' = StartCall(Head(calls))
                   /\ todo' = Tail(calls)
    /\ UNCHANGED << kernel, prev_status, route_initial_checks,
                    first_check_done_event, ping_warnings, faults_left,
                    last_probe, cleanup, icmp_packet, accesses, probers >>

\* The outcomes the environment may give the command: success when the
\* table allows it, the failure the table forces otherwise, and while
\* faults are left any failure class the command can end in (the kernel
\* reports an invalid gateway only for a command that names one).
Outcomes(table, cmd, faults) ==
    ( IF KernelAccepts(table, cmd)
      THEN { [ result |-> Ok, fault |-> 0 ] }
      ELSE { [ result |-> IF cmd.verb = "del" THEN RouteNotFound
                          ELSE OtherError,
               fault |-> 0 ] } )
    \cup
    ( IF faults = 0 THEN { }
      ELSE { [ result |-> r, fault |-> 1 ] :
               r \in { OtherError }
                     \cup ( IF cmd.verb # "del"
                            THEN { RouteNotFound } ELSE { } )
                     \cup ( IF cmd.verb # "del" /\ cmd.gateway # NoneStr
                            THEN { InvalidGateway } ELSE { } ) } )

\* One subprocess.run of the mutator call in progress, and what the mutator
\* and apply_routes do until the next one.  The plan keeps the commands
\* run, how each ended and what each mutator call returned.
KernelCommand ==
    /\ main_pc = "apply"
    /\ LET cmd == call_cmd(call)
       IN  \E o \in Outcomes(kernel, cmd, faults_left) :
             /\ kernel' = IF o.result = Ok THEN KernelApply(kernel, cmd)
                          ELSE kernel
             /\ faults_left' = faults_left - o.fault
             /\ plan' = [ plan EXCEPT
                            !.results = Append(@, o.result),
                            !.cmds = Append(@, cmd),
                            !.returned =
                                IF call_step(call, o.result).fn = "return"
                                THEN Append(@, call_step(call, o.result).value)
                                ELSE @ ]
             /\ LET after == call_step(call, o.result)
                IN  IF after.fn # "return"
                    THEN /\ call' = after
                         /\ UNCHANGED << todo, main_pc >>
                    ELSE IF todo # << >>
                    THEN /\ call' = StartCall(Head(todo))
                         /\ todo' = Tail(todo)
                         /\ UNCHANGED main_pc
                    ELSE /\ call' = NoCall
                         /\ todo' = << >>
                         /\ main_pc' = "wait"
    /\ UNCHANGED << config_routes, route_tasks, prev_status,
                    route_initial_checks, first_check_done_event,
                    interface_change_event, route_status, ping_warnings,
                    last_probe, changes, cleanup, icmp_packet, accesses, probers >>

---------------------------------------------------------------------------
(* main.py: the exit; modules/routing.py: clean *)

\* The monitors after main_loop's finally block: task.cancel() ends a
\* pending task at its await (CancelledError is caught nowhere), a task
\* that has ended is left as it is.
cancelled(tasks) ==
    [ id \in DOMAIN tasks |->
        IF tasks[id] \in { "first_check", "loop", "sleep" } THEN "cancelled"
        ELSE tasks[id] ]

\* SIGINT.  In the startup wait main_loop is outside its try block: the
\* cancellation of main_task ends it and no monitor is cancelled.  After it,
\* on CancelledError or on a KeyboardInterrupt raised inside a pass, the
\* finally block cancels the monitors and awaits them with gather, which
\* raises the exception of a monitor that had failed: where main() was
\* waiting for main_task the exception leaves main() before exitFunc
\* ("raised"), inside run_forever it ends main_task only ("hung", until the
\* next SIGINT).
KeyboardInterrupt ==
    /\ main_pc \in { "gather", "wait", "apply", "hung" }
    /\ IF main_pc \in { "gather", "hung" }
       THEN /\ main_pc' = "closed"
            /\ UNCHANGED route_tasks
       ELSE /\ route_tasks' = cancelled(route_tasks)
            /\ main_pc' =
                   IF \A id \in DOMAIN route_tasks : route_tasks[id] # "failed"
                   THEN "closed"
                   ELSE IF main_pc = "wait" THEN "raised" ELSE "hung"
    /\ call' = NoCall
    /\ todo' = << >>
    /\ UNCHANGED << config_routes, kernel, prev_status, route_initial_checks,
                    first_check_done_event, interface_change_event,
                    route_status, ping_warnings, plan, faults_left,
                    last_probe, changes, cleanup, icmp_packet, accesses, probers >>

\* A clean() that removes nothing.
RECURSIVE clean_calls_none(_)
clean_calls_none(routes) ==
    IF routes = << >> THEN << >> ELSE clean_calls_none(Tail(routes))

\* The remove_route calls of clean() for the routes it read.
RECURSIVE clean_calls(_)
clean_calls(routes) ==
    IF routes = << >> THEN << >>
    ELSE LET route == Head(routes)
         IN  ( IF route.proto = app_protocal
               THEN << [ fn |-> "remove", route |-> route ] >> ELSE << >> )
             \o ( IF route.proto \in app_protocals
                  THEN << [ fn |-> "remove", route |-> route ] >> ELSE << >> )
             \o clean_calls(Tail(routes))

\* exitFunc after loop.close(): clean() reads the kernel table and, when
\* the policy is on, starts the removals.  cleanup keeps what it read, the
\* calls it makes and where the monitors were.
CleanStart ==
    /\ main_pc = "closed"
    /\ LET routes == get_ip_route(kernel)
           calls == IF cleanup.enabled THEN clean_calls(routes) ELSE << >>
       IN  /\ cleanup' = [ enabled |-> cleanup.enabled, ran |-> TRUE,
                           table |-> kernel, routes |-> routes,
                           calls |-> calls, results |-> << >>,
                           tasks |-> route_tasks, read |-> config_routes,
                           pass |-> plan ]
           /\ IF calls = << >>
              THEN /\ main_pc' = "exited"
                   /\ UNCHANGED << call, todo >>
              ELSE /\ main_pc' = "clean"
                   /\ call' = StartCall(Head(calls))
                   /\ todo' = Tail(calls)
    /\ UNCHANGED << config_routes, kernel, route_tasks, prev_status,
                    route_initial_checks, first_check_done_event,
                    interface_change_event, route_status, ping_warnings,
                    plan, faults_left, last_probe, changes, icmp_packet,
                    accesses, probers >>

\* One remove_route of clean(): its subprocess.run and the next call.
CleanCommand ==
    /\ main_pc = "clean"
    /\ LET cmd == call_cmd(call)
       IN  \E o \in Outcomes(kernel, cmd, faults_left) :
             /\ kernel' = IF o.result = Ok THEN KernelApply(kernel, cmd)
                          ELSE kernel
             /\ faults_left' = faults_left - o.fault
             /\ cleanup' = [ cleanup EXCEPT !.results = Append(@, o.result) ]
             /\ IF todo # << >>
                THEN /\ call' = StartCall(Head(todo))
                     /\ todo' = Tail(todo)
                     /\ UNCHANGED main_pc
                ELSE /\ call' = NoCall
                     /\ todo' = << >>
                     /\ main_pc' = "exited"
    /\ UNCHANGED << config_routes, route_tasks, prev_status,
                    route_initial_checks, first_check_done_event,
                    interface_change_event, route_status, ping_warnings,
                    plan, last_probe, changes, icmp_packet, accesses, probers >>

---------------------------------------------------------------------------
(* Spec: the agent *)

\* The configurations of the agent: route a is the default route over the
\* first path with priority 10; route b goes over the second path, to the
\* same destination (written either way) or to another one, with the same
\* or a worse priority; a has a ping rule or no rule, b a ping rule.
\* useable is False as load_route_config leaves it.
AgentConfigs ==
    { << RouteEntry("a", "default",
             [ gateway |-> "10.0.0.1", interface |-> "eth0" ], 0, 10,
             ra, FALSE),
         RouteEntry("b", d, [ gateway |-> "10.1.0.1", interface |-> "eth1" ],
             0, pb, PingRule, FALSE) >> :
        ra \in { PingRule, NoRule },
        d \in { "0.0.0.0/0", "10.0.0.0/8" }, pb \in Priorities }

\* The kernel tables the agent may find at its start: empty, or one route
\* of metric 0.
AgentTables ==
    { t \in KernelTables :
        Cardinality(t) <= 1 /\ \A r \in t : r.metric = 0 }

Init ==
    /\ config_routes \in AgentConfigs
    /\ kernel \in AgentTables
    /\ route_tasks = [ id \in Ids(config_routes) |-> "none" ]
    /\ prev_status = [ id \in Ids(config_routes) |-> FALSE ]
    /\ route_initial_checks = [ id \in Ids(config_routes) |-> FALSE ]
    /\ first_check_done_event = FALSE
    /\ interface_change_event = FALSE
    /\ main_pc = "start"
    /\ route_status = [ id \in Ids(config_routes) |-> << >> ]
    /\ ping_warnings = { }
    /\ plan = NoPlan
    /\ todo = << >>
    /\ call = NoCall
    /\ faults_left = MaxFaults
    /\ last_probe = NoProbe
    /\ changes = [ id \in Ids(config_routes) |-> 0 ]
    /\ cleanup = NoCleanup(clean_when_exit)
    /\ icmp_packet = NoPacket
    /\ accesses = { }
    /\ probers = NoProbers

Next ==
    \/ StartMonitors
    \/ \E id \in Ids(config_routes), env \in AgentProbeEnvs : FirstCheck(id, env)
    \/ \E id \in Ids(config_routes), env \in AgentProbeEnvs : LoopCheck(id, env)
    \/ \E id \in Ids(config_routes) : MonitorRaises(id)
    \/ GatherDone
    \/ ReconcilePass
    \/ KernelCommand

Spec == Init /\ [][Next]_vars

---------------------------------------------------------------------------
(* SpecPlan: one pass on drawn inputs *)

\* The RouteSpecs of a pass: two routes, each with any destination, path,
\* metric, priority and useable value.
PlanConfigs ==
    { << RouteEntry("a", da, pa, ma, qa, PingRule, ua),
         RouteEntry("b", db, pb, mb, qb, PingRule, ub) >> :
        da \in { "default", "0.0.0.0/0", "10.0.0.0/8" },
        db \in { "default", "0.0.0.0/0", "10.0.0.0/8" },
        pa \in Paths, pb \in Paths, ma \in Metrics, mb \in Metrics,
        qa \in Priorities, qb \in Priorities,
        ua \in BOOLEAN, ub \in BOOLEAN }

InitPlan ==
    /\ config_routes \in PlanConfigs
    /\ kernel \in KernelTables
    /\ route_tasks = [ id \in Ids(config_routes) |-> "loop" ]
    /\ prev_status =
           [ id \in Ids(config_routes) |->
               config_routes[RouteById(config_routes, id)].useable ]
    /\ route_initial_checks = [ id \in Ids(config_routes) |-> TRUE ]
    /\ first_check_done_event = TRUE
    /\ interface_change_event = TRUE
    /\ main_pc = "wait"
    /\ route_status = [ id \in Ids(config_routes) |-> << >> ]
    /\ ping_warnings = { }
    /\ plan = NoPlan
    /\ todo = << >>
    /\ call = NoCall
    /\ faults_left = MaxFaults
    /\ last_probe = NoProbe
    /\ changes = [ id \in Ids(config_routes) |-> 0 ]
    /\ cleanup = NoCleanup(clean_when_exit)
    /\ icmp_packet = NoPacket
    /\ accesses = { }
    /\ probers = NoProbers

NextPlan ==
    \/ ReconcilePass
    \/ KernelCommand

SpecPlan == InitPlan /\ [][NextPlan]_vars

---------------------------------------------------------------------------
(* SpecCheck: the health check of one route on drawn rules and probes *)

\* The rules of the checked route: none, a rule of another kind, a ping
\* rule that probes the gateway, a stricter ping rule with its own target.
CheckRules ==
    { NoRule, RouteRule("tcp", 50, 100, NoneStr), PingRule,
      RouteRule("ping", 0, 100, "192.0.2.1") }

\* The checked route as load_route_config leaves it; the gateway is missing
\* when neither the file nor get_interface_gateway gives one.
CheckConfigs ==
    { << RouteEntry("a", "default",
             [ gateway |-> g, interface |-> "eth0" ], 0, 10, rule, FALSE) >> :
        rule \in CheckRules, g \in { "10.0.0.1", NoneStr } }

\* One await route.check_status() of monitor_route, with what the probe met,
\* what the route and its warning were before and the warning line logged
\* kept in last_probe.
CheckStatus(id, env) ==
    /\ main_pc = "check"
    /\ LET route == config_routes[RouteById(config_routes, id)]
           res == check_status(route, env, ping_warnings)
       IN  /\ config_routes' = SetUseable(config_routes, id, res.useable)
           /\ ping_warnings' = res.ping_warnings
           /\ last_probe' = [ fault |-> env.fault, replies |-> env.replies,
                              id |-> id, returned |-> res.returned,
                              before |-> route.useable,
                              warned |-> warning_key(route) \in ping_warnings,
                              log |-> res.log ]
    /\ route_tasks' = [ route_tasks EXCEPT ![id] = "loop" ]
    /\ UNCHANGED << kernel, prev_status, route_initial_checks,
                    first_check_done_event, interface_change_event, main_pc,
                    route_status, plan, todo, call, faults_left, changes, cleanup, icmp_packet, accesses, probers >>

InitCheck ==
    /\ config_routes \in CheckConfigs
    /\ kernel = { }
    /\ route_tasks = [ id \in Ids(config_routes) |-> "first_check" ]
    /\ prev_status = [ id \in Ids(config_routes) |-> FALSE ]
    /\ route_initial_checks = [ id \in Ids(config_routes) |-> FALSE ]
    /\ first_check_done_event = FALSE
    /\ interface_change_event = FALSE
    /\ main_pc = "check"
    /\ route_status = [ id \in Ids(config_routes) |-> << >> ]
    /\ ping_warnings = { }
    /\ plan = NoPlan
    /\ todo = << >>
    /\ call = NoCall
    /\ faults_left = 0
    /\ last_probe = NoProbe
    /\ changes = [ id \in Ids(config_routes) |-> 0 ]
    /\ cleanup = NoCleanup(clean_when_exit)
    /\ icmp_packet = NoPacket
    /\ accesses = { }
    /\ probers = NoProbers

NextCheck ==
    \E id \in Ids(config_routes), env \in ProbeEnvs : CheckStatus(id, env)

SpecCheck == InitCheck /\ [][NextCheck]_vars

---------------------------------------------------------------------------
(* SpecExit: the agent and its exit *)

\* Route a is the default route over the first path, with a metric of its
\* own or none; route b goes elsewhere over the second path.
ExitConfigs ==
    { << RouteEntry("a", "default",
             [ gateway |-> "10.0.0.1", interface |-> "eth0" ], m, 10,
             PingRule, FALSE),
         RouteEntry("b", "10.0.0.0/8",
             [ gateway |-> "10.1.0.1", interface |-> "eth1" ], 0, 10,
             NoRule, FALSE) >> : m \in Metrics }

\* The kernel table at the start: empty, or a default route over the first
\* path that another program installed.
ExitTables ==
    { { },
      { [ destination |-> "default", gateway |-> "10.0.0.1",
          interface |-> "eth0", metric |-> 0, proto |-> "static" ] } }

InitExit ==
    /\ config_routes \in ExitConfigs
    /\ kernel \in ExitTables
    /\ route_tasks = [ id \in Ids(config_routes) |-> "none" ]
    /\ prev_status = [ id \in Ids(config_routes) |-> FALSE ]
    /\ route_initial_checks = [ id \in Ids(config_routes) |-> FALSE ]
    /\ first_check_done_event = FALSE
    /\ interface_change_event = FALSE
    /\ main_pc = "start"
    /\ route_status = [ id \in Ids(config_routes) |-> << >> ]
    /\ ping_warnings = { }
    /\ plan = NoPlan
    /\ todo = << >>
    /\ call = NoCall
    /\ faults_left = MaxFaults
    /\ last_probe = NoProbe
    /\ changes = [ id \in Ids(config_routes) |-> 0 ]
    /\ \E enabled \in BOOLEAN : cleanup = NoCleanup(enabled)
    /\ icmp_packet = NoPacket
    /\ accesses = { }
    /\ probers = NoProbers

NextExit ==
    \/ Next
    \/ KeyboardInterrupt
    \/ CleanStart
    \/ CleanCommand

SpecExit == InitExit /\ [][NextExit]_vars

---------------------------------------------------------------------------
(* SpecPing: the packets of a probe *)

\* Bytes of a payload, the longest payload, and the identifiers (the low 16
\* bits of a process id) the packets are built with.
PayloadBytes == { 0, 1, 128, 255 }

MaxPayload == 3

Payloads ==
    UNION { [ 1..n -> PayloadBytes ] : n \in 0..MaxPayload }

Identifiers == { 0, 1, 4660, 65280, 65535 }

\* One iteration of ping_with_return's loop up to send_ping: the packet of
\* sequence number seq is built, with type 8, code 0 and the checksum field
\* 0 at the first packing.  The first packet has sequence number 1, the
\* next ones the same identifier and payload and the next number.
RequestPing(id, seq, payload) ==
    /\ IF icmp_packet.built
       THEN /\ id = icmp_packet.data_ID
            /\ payload = icmp_packet.payload
            /\ seq = icmp_packet.data_Sequence + 1
       ELSE seq = 1
    /\ icmp_packet' =
           [ built |-> TRUE, data_ID |-> id, data_Sequence |-> seq,
             payload |-> payload,
             zeroed |-> pack(8, 0, 0, id, seq, payload),
             packet |-> request_ping(8, 0, 0, id, seq, payload) ]
    /\ UNCHANGED << config_routes, kernel, route_tasks, prev_status,
                    route_initial_checks, first_check_done_event,
                    interface_change_event, main_pc, route_status,
                    ping_warnings, plan, todo, call, faults_left, last_probe,
                    changes, cleanup, accesses, probers >>

InitPing ==
    /\ InitCheck
    /\ config_routes = << RouteEntry("a", "default",
                              [ gateway |-> "10.0.0.1", interface |-> "eth0" ],
                              0, 10, PingRule, FALSE) >>

NextPing ==
    \E id \in Identifiers, seq \in 1..ping_count, payload \in Payloads :
        RequestPing(id, seq, payload)

SpecPing == InitPing /\ [][NextPing]_vars

---------------------------------------------------------------------------
(* SpecCall: one mutator call *)

\* Command failures the environment injects into one mutator call.
MaxCallFaults == 3

\* The routes a mutator is called with: with a gateway or on-link, with a
\* metric or without.
CallRoutes ==
    { RouteEntry("a", d, p, m, 10, PingRule, TRUE) :
        d \in { "default", "10.0.0.0/8" },
        p \in Paths \cup { [ gateway |-> NoneStr, interface |-> "eth0" ] },
        m \in Metrics }

\* apply_routes is at its call fn(route).
AtCall(fn, route) ==
    /\ config_routes = << route >>
    /\ main_pc = "apply"
    /\ call = StartCall([ fn |-> fn, route |-> route ])
    /\ todo = << >>
    /\ plan = [ ran |-> TRUE, calls |-> << [ fn |-> fn, route |-> route ] >>,
                results |-> << >>, cmds |-> << >>, returned |-> << >> ]

InitCall ==
    /\ \E fn \in { "add", "remove", "replace" }, route \in CallRoutes :
          AtCall(fn, route)
    /\ kernel \in KernelTables
    /\ route_tasks = [ id \in Ids(config_routes) |-> "loop" ]
    /\ prev_status = [ id \in Ids(config_routes) |-> TRUE ]
    /\ route_initial_checks = [ id \in Ids(config_routes) |-> TRUE ]
    /\ first_check_done_event = TRUE
    /\ interface_change_event = FALSE
    /\ route_status = [ id \in Ids(config_routes) |-> << TRUE >> ]
    /\ ping_warnings = { }
    /\ faults_left = MaxCallFaults
    /\ last_probe = NoProbe
    /\ changes = [ id \in Ids(config_routes) |-> 0 ]
    /\ cleanup = NoCleanup(clean_when_exit)
    /\ icmp_packet = NoPacket
    /\ accesses = { }
    /\ probers = NoProbers

NextCall == KernelCommand

SpecCall == InitCall /\ [][NextCall]_vars

---------------------------------------------------------------------------
(* SpecStubborn: one mutator call against a kernel that keeps refusing *)

\* The plan keeps the commands of the call up to this number.
MaxRecorded == 4

\* How the command of the call ends on a kernel that answers "Nexthop has
\* invalid gateway" to every add or replace with a gateway and "No such
\* process" to every retry without it; any other command ends as the table
\* decides.
stubborn_kernel(table, c) ==
    LET cmd == call_cmd(c)
    IN  IF cmd.verb # "del" /\ cmd.gateway # NoneStr THEN InvalidGateway
        ELSE IF cmd.verb # "del" /\ c.retry THEN RouteNotFound
        ELSE IF KernelAccepts(table, cmd) THEN Ok
        ELSE IF cmd.verb = "del" THEN RouteNotFound
        ELSE OtherError

\* One subprocess.run of the mutator call in progress on that kernel, and
\* what the mutator does until the next one.
StubbornCommand ==
    /\ main_pc = "apply"
    /\ LET cmd == call_cmd(call)
           result == stubborn_kernel(kernel, call)
           after == call_step(call, result)
       IN  /\ kernel' = IF result = Ok THEN KernelApply(kernel, cmd)
                        ELSE kernel
           /\ plan' = IF Len(plan.cmds) >= MaxRecorded THEN plan
                      ELSE [ plan EXCEPT
                               !.results = Append(@, result),
                               !.cmds = Append(@, cmd),
                               !.returned =
                                   IF after.fn = "return"
                                   THEN Append(@, after.value)
                                   ELSE @ ]
           /\ IF after.fn # "return"
              THEN /\ call' = after
                   /\ UNCHANGED main_pc
              ELSE /\ call' = NoCall
                   /\ main_pc' = "wait"
    /\ UNCHANGED << config_routes, route_tasks, prev_status,
                    route_initial_checks, first_check_done_event,
                    interface_change_event, route_status, ping_warnings,
                    todo, faults_left, last_probe, changes, cleanup,
                    icmp_packet, accesses, probers >>

InitStubborn == InitCall

NextStubborn == StubbornCommand

\* subprocess.run blocks until the command has ended and the mutator goes
\* on: a call in progress takes its next step.
SpecStubborn ==
    InitStubborn /\ [][NextStubborn]_vars /\ WF_vars(StubbornCommand)

----------------------------------------------------------------------------
(* SpecProbers: the probes of two routes running at the same time *)

\* An ICMP echo reply as reply_ping reads it from the socket: the header
\* fields it unpacks, the sender address recvfrom returns, and the prober
\* whose request the target answered (not in the packet).
EchoReplyPacket(data_ID, seq, addr, prober) ==
    [ type |-> 0, data_ID |-> data_ID, data_Sequence |-> seq, addr |-> addr,
      answers |-> prober ]

\* ping_with_return before its loop: the raw socket is open and bound to
\* the interface (SO_BINDTODEVICE), data_ID is the process id, nothing is
\* sent.
StartProbe(route, data_ID) ==
    [ host |-> ping_target(route), iface |-> route.interface,
      data_ID |-> data_ID, pc |-> "send", iteration |-> 0, sent |-> 0,
      received |-> 0, on_wire |-> 0, socket |-> << >>, counted |-> << >> ]

\* seq = data_Sequence + iteration, data_Sequence = 1.
seq_of(prober) == 1 + prober.iteration

\* The test of reply_ping on a packet it has received.
reply_ping(packet, expected_seq) ==
    packet.type = 0 /\ packet.data_Sequence = expected_seq

\* The end of one iteration of the loop: iteration += 1 and the loop
\* condition iteration < count.
next_iteration(prober) ==
    [ prober EXCEPT !.iteration = @ + 1,
                    !.pc = IF prober.iteration + 1 < ping_count
                           THEN "send" ELSE "done" ]

\* request_ping and send_ping of one iteration: the request is on the wire,
\* sent += 1, and the prober is in reply_ping.
SendPing(p) ==
    /\ probers[p].pc = "send"
    /\ probers' = [ probers EXCEPT ![p].pc = "wait",
                                   ![p].sent = @ + 1,
                                   ![p].on_wire = seq_of(probers[p]) ]
    /\ UNCHANGED << config_routes, kernel, route_tasks, prev_status,
                    route_initial_checks, first_check_done_event,
                    interface_change_event, main_pc, route_status,
                    ping_warnings, plan, todo, call, faults_left, last_probe,
                    changes, cleanup, icmp_packet, accesses >>

\* The target answers the request on the wire.  The kernel hands a copy of
\* an incoming ICMP packet to every raw ICMP socket bound to the interface
\* it came in on: to the socket of every probe in progress on that
\* interface.
EchoReply(p) ==
    /\ probers[p].on_wire # 0
    /\ LET packet == EchoReplyPacket(probers[p].data_ID, probers[p].on_wire,
                                     probers[p].host, p)
       IN  probers' =
               [ q \in DOMAIN probers |->
                   LET delivered ==
                           IF /\ probers[q].pc # "done"
                              /\ probers[q].iface = probers[p].iface
                           THEN Append(probers[q].socket, packet)
                           ELSE probers[q].socket
                   IN  [ probers[q] EXCEPT
                           !.socket = delivered,
                           !.on_wire = IF q = p THEN 0 ELSE @ ] ]
    /\ UNCHANGED << config_routes, kernel, route_tasks, prev_status,
                    route_initial_checks, first_check_done_event,
                    interface_change_event, main_pc, route_status,
                    ping_warnings, plan, todo, call, faults_left, last_probe,
                    changes, cleanup, icmp_packet, accesses >>

\* One turn of reply_ping's loop with a packet in the socket: recvfrom, and
\* when the test passes the packet is counted (received += 1) and the
\* iteration ends; otherwise reply_ping goes on waiting.
ReplyPing(p) ==
    /\ probers[p].pc = "wait"
    /\ probers[p].socket # << >>
    /\ LET packet == Head(probers[p].socket)
           read == [ probers[p] EXCEPT !.socket = Tail(@) ]
       IN  probers' =
               [ probers EXCEPT
                   ![p] = IF reply_ping(packet, seq_of(read))
                          THEN next_iteration(
                                   [ read EXCEPT
                                       !.received = @ + 1,
                                       !.counted = Append(@, packet) ])
                          ELSE read ]
    /\ UNCHANGED << config_routes, kernel, route_tasks, prev_status,
                    route_initial_checks, first_check_done_event,
                    interface_change_event, main_pc, route_status,
                    ping_warnings, plan, todo, call, faults_left, last_probe,
                    changes, cleanup, icmp_packet, accesses >>

\* reply_ping returns -1: select timed out or time_left ran out.
ReplyTimeout(p) ==
    /\ probers[p].pc = "wait"
    /\ probers' = [ probers EXCEPT ![p] = next_iteration(@) ]
    /\ UNCHANGED << config_routes, kernel, route_tasks, prev_status,
                    route_initial_checks, first_check_done_event,
                    interface_change_event, main_pc, route_status,
                    ping_warnings, plan, todo, call, faults_left, last_probe,
                    changes, cleanup, icmp_packet, accesses >>

\* The rules of the second probed route: it probes its gateway, or a
\* target of its own.
ProberRules == { PingRule, RouteRule("ping", 50, 100, "192.0.2.1") }

\* Two routes with a ping rule, the second over either path and with either
\* rule: their monitors have both called check_status and the two probes
\* run on worker threads of the one process.
InitProbers ==
    /\ \E pa \in Paths, pb \in Paths, rule \in ProberRules :
          config_routes =
              << RouteEntry("a", "default", pa, 0, 10, PingRule, FALSE),
                 RouteEntry("b", "10.0.0.0/8", pb, 0, 10, rule, FALSE) >>
    /\ kernel = { }
    /\ route_tasks = [ id \in Ids(config_routes) |-> "first_check" ]
    /\ prev_status = [ id \in Ids(config_routes) |-> FALSE ]
    /\ route_initial_checks = [ id \in Ids(config_routes) |-> FALSE ]
    /\ first_check_done_event = FALSE
    /\ interface_change_event = FALSE
    /\ main_pc = "gather"
    /\ route_status = [ id \in Ids(config_routes) |-> << >> ]
    /\ ping_warnings = { }
    /\ plan = NoPlan
    /\ todo = << >>
    /\ call = NoCall
    /\ faults_left = 0
    /\ last_probe = NoProbe
    /\ changes = [ id \in Ids(config_routes) |-> 0 ]
    /\ cleanup = NoCleanup(clean_when_exit)
    /\ icmp_packet = NoPacket
    /\ accesses = { }
    /\ \E data_ID \in { 1, 4660 } :
          probers =
              [ id \in Ids(config_routes) |->
                  StartProbe(config_routes[RouteById(config_routes, id)],
                             data_ID) ]

NextProbers ==
    \E p \in DOMAIN probers :
        \/ SendPing(p)
        \/ EchoReply(p)
        \/ ReplyPing(p)
        \/ ReplyTimeout(p)

SpecProbers == InitProbers /\ [][NextProbers]_vars

----------------------------------------------------------------------------
(* SpecLock: the locks held at the accesses to the shared state *)

\* route_lock of main.py (asyncio.Lock) and event_lock of context.py
\* (threading.Lock).
route_lock == "route_lock"
event_lock == "event_lock"

\* One access: who, to what, reading or writing, holding which locks.
Access(task, object, kind, held) ==
    [ task |-> task, object |-> object, kind |-> kind, held |-> held ]

\* The accesses of one await route.check_status() of a monitor, which holds
\* no lock of its own: useable is assigned outside any with block,
\* _handle_network_warnings tests and changes context.ping_warnings inside
\* `with context.event_lock`.
check_status_accesses(route, env, warnings) ==
    IF ~ probes(route) THEN { }
    ELSE LET res == check_status(route, env, warnings)
             stats == ping_with_return(ping_count, env)
         IN  { Access("monitor", "useable", "write", { }) }
             \cup ( IF stats.raised THEN { }
                    ELSE { Access("monitor", "ping_warnings", "read",
                                  { event_lock }) } )
             \cup ( IF res.ping_warnings # warnings
                    THEN { Access("monitor", "ping_warnings", "write",
                                  { event_lock }) }
                    ELSE { } )

\* The accesses of enable_config_route, which main_loop calls inside
\* `async with route_lock`: route.useable and route_status.get() are read
\* before `with event_lock`, route_status is written inside it; the
\* grouping reads useable again.
enable_config_route_accesses(status, routes) ==
    IF routes = << >> THEN { }
    ELSE { Access("main", "useable", "read", { route_lock }),
           Access("main", "route_status", "read", { route_lock }) }
         \cup ( IF track_status(status, routes) # status
                THEN { Access("main", "route_status", "write",
                              { route_lock, event_lock }) }
                ELSE { } )

\* One turn of monitor_route's loop, as LoopCheck, with its accesses.
LockedCheck(id, env) ==
    /\ CanCheck(id)
    /\ LET route == config_routes[RouteById(config_routes, id)]
           res == check_status(route, env, ping_warnings)
       IN  /\ config_routes' = SetUseable(config_routes, id, res.useable)
           /\ ping_warnings' = res.ping_warnings
           /\ accesses' = accesses
                  \cup check_status_accesses(route, env, ping_warnings)
           /\ IF status_changed(res.useable, prev_status[id])
              THEN /\ interface_change_event' = TRUE
                   /\ prev_status' = [ prev_status EXCEPT ![id] = res.useable ]
              ELSE UNCHANGED << interface_change_event, prev_status >>
    /\ route_tasks' =
           [ route_tasks EXCEPT
               ![id] = after_check(main_pc, route_initial_checks,
                                   interface_change_event') ]
    /\ UNCHANGED << kernel, route_initial_checks, first_check_done_event,
                    main_pc, route_status, plan, todo, call, faults_left,
                    last_probe, changes, cleanup, icmp_packet, probers >>

\* One pass of main_loop, as ReconcilePass, with its accesses.
LockedPass ==
    /\ main_pc = "wait"
    /\ first_check_done_event
    /\ interface_change_event
    /\ interface_change_event' = FALSE
    /\ LET ip_routes == get_ip_route(kernel)
           p == make_plan(ip_routes, config_routes)
           calls == apply_routes(p.inject, p.remove)
       IN  /\ route_status' = track_status(route_status, config_routes)
           /\ config_routes' = p.config_routes
           /\ route_tasks' = woken(route_tasks)
           /\ accesses' = accesses
                  \cup enable_config_route_accesses(route_status,
                                                    config_routes)
           /\ plan' = [ ran |-> TRUE, read |-> config_routes,
                        before |-> route_status,
                        ip_routes |-> ip_routes, selected |-> p.selected,
                        failed |-> p.failed, inject |-> p.inject,
                        remove |-> p.remove, existing |-> p.existing,
                        calls |-> calls, table |-> kernel,
                        results |-> << >>, cmds |-> << >>,
                        returned |-> << >> ]
           /\ IF calls = << >>
              THEN /\ main_pc' = "wait"
                   /\ call' = NoCall
                   /\ todo' = << >>
              ELSE /\ main_pc' = "apply"
                   /\ call' = StartCall(Head(calls))
                   /\ todo' = Tail(calls)
    /\ UNCHANGED << kernel, prev_status, route_initial_checks,
                    first_check_done_event, ping_warnings, faults_left,
                    last_probe, changes, cleanup, icmp_packet, probers >>

\* The monitors have made their first checks and main_loop waits for a
\* change.
InitLock ==
    /\ config_routes \in AgentConfigs
    /\ kernel \in AgentTables
    /\ route_tasks = [ id \in Ids(config_routes) |-> "loop" ]
    /\ prev_status = [ id \in Ids(config_routes) |-> FALSE ]
    /\ route_initial_checks = [ id \in Ids(config_routes) |-> TRUE ]
    /\ first_check_done_event = TRUE
    /\ interface_change_event = TRUE
    /\ main_pc = "wait"
    /\ route_status = [ id \in Ids(config_routes) |-> << >> ]
    /\ ping_warnings = { }
    /\ plan = NoPlan
    /\ todo = << >>
    /\ call = NoCall
    /\ faults_left = 0
    /\ last_probe = NoProbe
    /\ changes = [ id \in Ids(config_routes) |-> 0 ]
    /\ cleanup = NoCleanup(clean_when_exit)
    /\ icmp_packet = NoPacket
    /\ accesses = { }
    /\ probers = NoProbers

NextLock ==
    \/ \E id \in Ids(config_routes), env \in AgentProbeEnvs : LockedCheck(id, env)
    \/ LockedPass
    \/ KernelCommand

SpecLock == InitLock /\ [][NextLock]_vars

---------------------------------------------------------------------------
(* What the claims speak of, in terms of the last pass *)

Positions(routes) == 1..Len(routes)

\* The normalized destinations of the RouteSpecs the pass read.
PlanDests == { normalize_dest(plan.read[i].destination) : i \in Positions(plan.read) }

\* The positions in a list of the routes to a normalized destination.
RoutesTo(routes, dest) ==
    { i \in Positions(routes) : normalize_dest(routes[i].destination) = dest }

\* The positions of the usable RouteSpecs of a destination group.
UsableIn(routes, dest) == { i \in RoutesTo(routes, dest) : routes[i].useable }

\* Position i holds the group's usable spec with the lowest priority number,
\* the first of them in configuration order.
IsBest(routes, dest, i) ==
    /\ i \in UsableIn(routes, dest)
    /\ \A k \in UsableIn(routes, dest) :
         \/ routes[i].priority < routes[k].priority
         \/ routes[i].priority = routes[k].priority /\ i <= k

HasId(routes, id) == \E j \in Positions(routes) : routes[j].id = id

\* A route of the list is structurally identical to the route.
HasEqual(routes, route) == \E j \in Positions(routes) : RouteEq(routes[j], route)

---------------------------------------------------------------------------
(* C1 *)

\* C1: in every pass and for every group of RouteSpecs with one normalized
\* destination, at most one spec is selected; when some spec of the group
\* is usable the selected one is the usable spec with the lowest priority
\* number, the first of them in configuration order; when none is usable
\* none is selected.
C1_Selection ==
    plan.ran =>
        \A dest \in PlanDests :
            LET sel == RoutesTo(plan.selected, dest)
            IN  /\ Cardinality(sel) <= 1
                /\ UsableIn(plan.read, dest) = { } => sel = { }
                /\ UsableIn(plan.read, dest) # { } =>
                       \E j \in sel, i \in UsableIn(plan.read, dest) :
                           /\ plan.selected[j].id = plan.read[i].id
                           /\ IsBest(plan.read, dest, i)

\* A pass over two usable specs of one destination, written in two ways, in
\* which the second spec has the lower priority number and is selected.
C1_Witness ==
    /\ plan.ran
    /\ plan.read[1].destination = "0.0.0.0/0"
    /\ plan.read[2].destination = "default"
    /\ plan.read[1].useable /\ plan.read[2].useable
    /\ plan.read[2].priority < plan.read[1].priority
    /\ Len(plan.selected) = 1
    /\ plan.selected[1].id = "b"

---------------------------------------------------------------------------
(* C2 *)

\* The failover case of a pass: spec a has the better priority, is unusable
\* and has its kernel route installed; spec b of the same destination is
\* usable and has no kernel route of its own.
FailoverCase(a, b) ==
    /\ normalize_dest(plan.read[a].destination)
           = normalize_dest(plan.read[b].destination)
    /\ plan.read[a].priority < plan.read[b].priority
    /\ ~ plan.read[a].useable
    /\ plan.read[b].useable
    /\ HasEqual(plan.ip_routes, plan.read[a])
    /\ ~ HasEqual(plan.ip_routes, plan.read[b])

\* C2: in the failover case the pass selects b, puts b in the inject list
\* and puts a's kernel route in the remove list.
C2_FailoverPlan ==
    plan.ran =>
        \A a, b \in Positions(plan.read) :
            FailoverCase(a, b) =>
                /\ HasId(plan.selected, plan.read[b].id)
                /\ HasId(plan.inject, plan.read[b].id)
                /\ HasEqual(plan.remove, plan.read[a])

\* The failover case with a's route the only one in the kernel: b is
\* selected and a's route is to be removed, but b is filed as existing and
\* nothing is to be injected.
C2_Witness ==
    /\ plan.ran
    /\ FailoverCase(1, 2)
    /\ Len(plan.ip_routes) = 1
    /\ HasId(plan.selected, "b")
    /\ HasEqual(plan.remove, plan.read[1])
    /\ HasId(plan.existing, "b")
    /\ plan.inject = << >>

---------------------------------------------------------------------------
(* C3 *)

\* main_loop waits for a notification and none is pending; the last pass
\* is over and each of its commands succeeded.  No pass runs from here
\* until a monitor sees a usable value change.
Settled ==
    /\ main_pc = "wait"
    /\ ~ interface_change_event
    /\ plan.ran
    /\ \A k \in Positions(plan.results) : plan.results[k] = Ok

\* The kernel table holds the route of the RouteSpec.
Installed(route) == HasEqual(get_ip_route(kernel), route)

\* The kernel table holds the route of a usable spec of the destination
\* group that has the group's lowest priority number among the usable.
LowestUsableInstalled(dest) ==
    \E i \in UsableIn(config_routes, dest) :
        /\ \A k \in UsableIn(config_routes, dest) :
               config_routes[i].priority <= config_routes[k].priority
        /\ Installed(config_routes[i])

\* C3: once the usable values have stopped changing and the commands have
\* succeeded, the kernel table holds, for every destination with a usable
\* spec, the route of the usable spec with the lowest priority number.  In a
\* settled state nothing moves while the usable values stay, so the table
\* must hold these routes there.
C3_Convergence ==
    Settled =>
        \A i \in Positions(config_routes) :
            LET dest == normalize_dest(config_routes[i].destination)
            IN  UsableIn(config_routes, dest) # { }
                    => LowestUsableInstalled(dest)

\* The settled state after a failover: a's route was in the kernel when the
\* pass ran, a was unusable and b usable, the removal succeeded, and now the
\* kernel has no route to the destination although b is usable.
C3_Witness ==
    /\ Settled
    /\ FailoverCase(1, 2)
    /\ plan.results = << Ok >>
    /\ config_routes[2].useable
    /\ ~ \E r \in kernel : r.destination = "default"

---------------------------------------------------------------------------
(* C4 *)

\* check_status assigns useable only after a probe: the value of a route it
\* does not probe is the one load_route_config gave it.
AssignedByCheck(route) == probes(route)

\* The first half of C4: when a pass runs, every monitor is past its first
\* check (in its loop, or ended by an exception).
C4_GateOrder ==
    plan.ran =>
        \A id \in DOMAIN plan.tasks :
            plan.tasks[id] \in { "loop", "sleep", "failed" }

\* C4: no pass runs before every monitor has finished its first health check
\* or has failed past it, and a pass reads from a route whose monitor has
\* finished a check only a usable value that a health check has assigned.
C4_FirstChecksBeforePass ==
    /\ C4_GateOrder
    /\ plan.ran =>
           \A i \in Positions(plan.read) :
               plan.tasks[plan.read[i].id] \in { "loop", "sleep" }
                   => AssignedByCheck(plan.read[i])

\* A pass that read, from a route without a rule whose monitor was in its
\* loop, the usable value of load_route_config.
C4_Witness ==
    /\ plan.ran
    /\ plan.tasks["a"] \in { "loop", "sleep" }
    /\ plan.read[1].rule = NoRule
    /\ ~ plan.read[1].useable

---------------------------------------------------------------------------
(* C5 *)

---------------------------------------------------------------------------
(* C6 *)

\* Some route's usable value is not the one the last pass read.
UnreadFlip ==
    \E i \in Positions(config_routes) :
        plan.read[i].useable # config_routes[i].useable

\* C6: every step that changes a route's usable value leaves the change
\* notification raised, and whenever a usable value differs from what the
\* last pass read the notification is raised: the pass that clears it reads
\* the value.
C6_NoLostFlip ==
    /\ [][ ( \E i \in Positions(config_routes) :
               config_routes'[i].useable # config_routes[i].useable )
           => interface_change_event' ]_vars
    /\ []( (plan.ran /\ UnreadFlip) => interface_change_event )

\* A route's monitor has seen a flip since the last pass, and a pass had
\* already handled an earlier value of that route: the notification is
\* raised and main_loop is at its wait.
C6_Witness ==
    /\ plan.ran
    /\ main_pc = "wait"
    /\ UnreadFlip
    /\ interface_change_event
    /\ \E i \in Positions(config_routes) :
           /\ plan.read[i].useable # config_routes[i].useable
           /\ prev_status[config_routes[i].id] = config_routes[i].useable

---------------------------------------------------------------------------
(* C7 *)

\* C7: a RouteSpec with no rule, a rule of another kind than ping, or no
\* probe target is usable once a health check of it has returned.
C7_UnprobedIsUsable ==
    \A i \in Positions(config_routes) :
        ( /\ route_tasks[config_routes[i].id] = "loop"
          /\ ~ probes(config_routes[i]) )
            => config_routes[i].useable

\* A health check of a route that is not probed has returned success and
\* the route is not usable.
C7_Witness ==
    /\ last_probe # NoProbe
    /\ ~ probes(config_routes[1])
    /\ last_probe.returned
    /\ ~ config_routes[1].useable

---------------------------------------------------------------------------
(* C8 *)

\* The last probe failed: the name did not resolve, the raw socket was
\* refused, the bind to the interface failed, or every packet timed out.
ProbeFailed ==
    /\ last_probe # NoProbe
    /\ \/ last_probe.fault \in { "dns", "perm", "bind" }
       \/ /\ last_probe.fault = "none"
          /\ \A k \in 1..ping_count : last_probe.replies[k] = Timeout

\* C8: after a health check whose probe failed the route is not usable.
C8_ProbeFailureIsUnusable ==
    ( ProbeFailed /\ probes(config_routes[1]) ) => ~ config_routes[1].useable

\* A health check whose probe could not resolve the target has returned
\* success and the route is usable.
C8_Witness ==
    /\ last_probe # NoProbe
    /\ last_probe.fault = "dns"
    /\ probes(config_routes[1])
    /\ last_probe.returned
    /\ config_routes[1].useable

---------------------------------------------------------------------------
(* C9 *)

\* The pass moves the destination: the kernel table it read has a route to
\* it, a spec is selected for it, and the selected spec's own route is not
\* in that table.
Moves(dest) ==
    /\ RoutesTo(plan.ip_routes, dest) # { }
    /\ \E j \in RoutesTo(plan.selected, dest) :
           ~ HasEqual(plan.ip_routes, plan.selected[j])

\* C9: in and after a pass that moves a destination and whose commands
\* succeed, the kernel table has a route to that destination in every
\* state.
C9_NoRoutingGap ==
    ( plan.ran /\ \A k \in Positions(plan.results) : plan.results[k] = Ok ) =>
        \A dest \in PlanDests :
            Moves(dest) =>
                \E r \in kernel : normalize_dest(r.destination) = dest

\* The failover pass after its one command, the removal of a's route, has
\* succeeded: b is selected and usable and the kernel has no route to the
\* destination.
C9_Witness ==
    /\ plan.ran
    /\ FailoverCase(1, 2)
    /\ Moves(normalize_dest(plan.read[2].destination))
    /\ plan.calls # << >>
    /\ plan.results = << Ok >>
    /\ main_pc = "wait"
    /\ ~ \E r \in kernel :
           normalize_dest(r.destination) = normalize_dest(plan.read[2].destination)

---------------------------------------------------------------------------
(* C10 *)

\* Nothing is scheduled or issued for the destination: no injection, no
\* removal, no mutator call.
Untouched(dest) ==
    /\ RoutesTo(plan.inject, dest) = { }
    /\ RoutesTo(plan.remove, dest) = { }
    /\ \A k \in Positions(plan.calls) :
           normalize_dest(plan.calls[k].route.destination) # dest

\* No other RouteSpec of the pass is structurally identical to the route.
NoTwin(route) ==
    \A i \in Positions(plan.read) :
        plan.read[i].id # route.id => ~ RouteEq(plan.read[i], route)

\* C10 as stated: a selected candidate with a structurally identical route
\* in the kernel table the pass read is filed as existing and nothing is
\* scheduled or issued for its destination.
C10_IdenticalIsExisting ==
    plan.ran =>
        \A j \in Positions(plan.selected) :
            HasEqual(plan.ip_routes, plan.selected[j]) =>
                /\ HasId(plan.existing, plan.selected[j].id)
                /\ Untouched(normalize_dest(plan.selected[j].destination))

\* C10: a selected candidate is filed as existing, and nothing is scheduled
\* or issued for its destination, when the only route to that destination
\* in the kernel table the pass read is structurally identical to the
\* candidate and no other RouteSpec is structurally identical to it.
C10_OnlyRouteIdentical ==
    plan.ran =>
        \A j \in Positions(plan.selected) :
            LET dest == normalize_dest(plan.selected[j].destination)
            IN  ( /\ HasEqual(plan.ip_routes, plan.selected[j])
                  /\ Cardinality(RoutesTo(plan.ip_routes, dest)) = 1
                  /\ NoTwin(plan.selected[j]) )
                    => /\ HasId(plan.existing, plan.selected[j].id)
                       /\ Untouched(dest)

\* A pass that selected a, found a's route as the only route to a's
\* destination, had an unusable b of the same destination on another path,
\* filed a as existing and made no call.
C10_Witness ==
    /\ plan.ran
    /\ plan.selected # << >>
    /\ plan.selected[1].id = "a"
    /\ HasEqual(plan.ip_routes, plan.selected[1])
    /\ Cardinality(RoutesTo(plan.ip_routes,
                       normalize_dest(plan.selected[1].destination))) = 1
    /\ NoTwin(plan.selected[1])
    /\ normalize_dest(plan.read[2].destination)
           = normalize_dest(plan.read[1].destination)
    /\ ~ plan.read[2].useable
    /\ plan.existing = << plan.selected[1] >>
    /\ plan.calls = << >>

---------------------------------------------------------------------------
(* C11 *)

\* C11: in every pass no unusable RouteSpec is selected, injected or filed
\* as existing, and the kernel route structurally identical to an unusable
\* RouteSpec, when the table the pass read has one, is in the remove list.
C11_UnusableNeverChosen ==
    plan.ran =>
        \A i \in Positions(plan.read) :
            ~ plan.read[i].useable =>
                /\ ~ HasId(plan.selected, plan.read[i].id)
                /\ ~ HasId(plan.inject, plan.read[i].id)
                /\ ~ HasId(plan.existing, plan.read[i].id)
                /\ \A k \in Positions(plan.ip_routes) :
                       RouteEq(plan.ip_routes[k], plan.read[i])
                           => \E j \in Positions(plan.remove) :
                                  plan.remove[j] = plan.ip_routes[k]

\* A pass over an unusable a whose route is in the kernel table and a usable
\* b of another destination: b is selected, a is not, and a's route is to be
\* removed.
C11_Witness ==
    /\ plan.ran
    /\ ~ plan.read[1].useable
    /\ plan.read[2].useable
    /\ normalize_dest(plan.read[1].destination)
           # normalize_dest(plan.read[2].destination)
    /\ HasEqual(plan.ip_routes, plan.read[1])
    /\ HasEqual(plan.remove, plan.read[1])
    /\ HasId(plan.selected, "b")
    /\ ~ HasId(plan.selected, "a")

---------------------------------------------------------------------------
(* C12 *)

\* The positions in the calls of apply_routes of the calls of one mutator
\* for one route.
CallsOf(fn, route) ==
    { k \in Positions(plan.calls) :
        plan.calls[k].fn = fn /\ plan.calls[k].route = route }

\* The removal and the injection are issued as one replace: one
\* replace_route call for the injection, no remove_route call for the
\* removal, no add_route call for the injection.
IssuedAsReplace(removal, injection) ==
    /\ Cardinality(CallsOf("replace", injection)) = 1
    /\ CallsOf("remove", removal) = { }
    /\ CallsOf("add", injection) = { }

\* C12 as stated: every scheduled removal and scheduled injection of one
\* normalized destination are issued as one replace.
C12_EveryPairReplaced ==
    plan.ran =>
        \A r \in Positions(plan.remove), b \in Positions(plan.inject) :
            normalize_dest(plan.remove[r].destination)
                = normalize_dest(plan.inject[b].destination)
              => IssuedAsReplace(plan.remove[r], plan.inject[b])

\* The first scheduled removal to the destination.
FirstRemoval(dest) ==
    CHOOSE r \in RoutesTo(plan.remove, dest) :
        \A o \in RoutesTo(plan.remove, dest) : r <= o

\* C12: every scheduled injection that shares its normalized destination
\* with a scheduled removal is issued as one replace with the first such
\* removal, and every further removal to that destination is issued as a
\* delete; no injection is paired twice.
C12_FirstPairReplaced ==
    plan.ran =>
        \A b \in Positions(plan.inject) :
            LET dest == normalize_dest(plan.inject[b].destination)
            IN  /\ Cardinality(CallsOf("replace", plan.inject[b])) <= 1
                /\ RoutesTo(plan.remove, dest) # { } =>
                       /\ IssuedAsReplace(plan.remove[FirstRemoval(dest)],
                                          plan.inject[b])
                       /\ \A r \in RoutesTo(plan.remove, dest) \ { FirstRemoval(dest) } :
                              Cardinality(CallsOf("remove", plan.remove[r])) = 1

\* A pass with one removal and one injection to one destination and one
\* call, the replace.
C12_Witness ==
    /\ plan.ran
    /\ Len(plan.remove) = 1
    /\ Len(plan.inject) = 1
    /\ normalize_dest(plan.remove[1].destination)
           = normalize_dest(plan.inject[1].destination)
    /\ plan.calls = << [ fn |-> "replace", route |-> plan.inject[1] ] >>

---------------------------------------------------------------------------
(* C13 *)

\* The last pass scheduled an injection whose destination has no route in
\* the kernel table.
MissingInjection ==
    \E j \in Positions(plan.inject) :
        ~ \E r \in kernel :
              normalize_dest(r.destination)
                  = normalize_dest(plan.inject[j].destination)

\* C13: when a pass is over and a mutation it scheduled is missing from the
\* kernel table, a later pass is due: main_loop does not wait for a
\* notification that is not there.
C13_FailureHealed ==
    ( main_pc = "wait" /\ plan.ran /\ MissingInjection )
        => interface_change_event

\* A pass whose one command, the add of the usable a, failed: the pass is
\* over, the table has no route to a's destination, a is still usable and no
\* notification is pending.
C13_Witness ==
    /\ main_pc = "wait"
    /\ plan.ran
    /\ ~ interface_change_event
    /\ Len(plan.inject) = 1
    /\ plan.calls = << [ fn |-> "add", route |-> plan.inject[1] ] >>
    /\ plan.results = << OtherError >>
    /\ plan.inject[1].id = "a"
    /\ config_routes[1].useable
    /\ MissingInjection

---------------------------------------------------------------------------
(* C14 *)

\* What the last health check's probe returned.
LastStats == ping_with_return(ping_count, last_probe)

\* The last check probed and its probe returned a result.
Probed == probes(config_routes[1]) /\ ~ LastStats.raised

\* The last probe found loss, or an average round trip above 0.8 times the
\* rule's max_latency_ms.
Degraded ==
    \/ LossPercentGt(LastStats, 0)
    \/ AvgRttGt(LastStats, config_routes[1].rule.max_latency_ms * 8, 10)

\* The route's id is in context.ping_warnings.
Warned == warning_key(config_routes[1]) \in ping_warnings

\* C14: a health check logs a network warning exactly when it finds the
\* route usable but degraded and the id is not in the set, and the id is
\* then in the set; a degraded check of a route whose id is in the set logs
\* nothing and keeps the id; a usable check that is not degraded of a route
\* whose id is in the set logs one recovery and removes the id; a recovery is
\* logged only for an id that was in the set.
C14_WarningDebounce ==
    last_probe # NoProbe =>
        /\ last_probe.log = "warning"
               <=> ( /\ Probed /\ config_routes[1].useable /\ Degraded
                     /\ ~ last_probe.warned )
        /\ last_probe.log = "warning" => Warned
        /\ ( Probed /\ config_routes[1].useable /\ Degraded /\ last_probe.warned )
               => ( last_probe.log = "none" /\ Warned )
        /\ ( Probed /\ config_routes[1].useable /\ ~ Degraded /\ last_probe.warned )
               => ( last_probe.log = "recovered" /\ ~ Warned )
        /\ last_probe.log = "recovered" => last_probe.warned

\* A check that found the route usable and not degraded while its id was in
\* the set: the recovery is logged and the id is gone.
C14_Witness ==
    /\ last_probe # NoProbe
    /\ last_probe.warned
    /\ Probed
    /\ config_routes[1].useable
    /\ ~ Degraded
    /\ last_probe.log = "recovered"
    /\ ~ Warned

---------------------------------------------------------------------------
(* C15 *)

\* C15: after a health check that leaves the route unusable, the route's id
\* is not in context.ping_warnings.
C15_UnusableDropsWarning ==
    ( last_probe # NoProbe /\ ~ config_routes[1].useable ) => ~ Warned

\* A check of a route whose id was in the set ended in an exception of the
\* probe: the route is unusable and the id is still in the set.
C15_Witness ==
    /\ last_probe # NoProbe
    /\ last_probe.fault = "oserror"
    /\ last_probe.warned
    /\ last_probe.before
    /\ ~ config_routes[1].useable
    /\ Warned

---------------------------------------------------------------------------
(* C16 *)

\* The pass that ran last logged for each route the event of the one change
\* it read, if any, and recorded the value it read.
PassLoggedChanges ==
    plan.ran =>
        \A i \in Positions(plan.read) :
            LET route == plan.read[i]
                event == plan.events[i]
            IN  /\ route_status[route.id] = << route.useable >>
                /\ IF plan.before[route.id] = << >>
                   THEN event = ( IF route.useable THEN "online"
                                  ELSE "unavailable" )
                   ELSE /\ event = "failed"
                            <=> ( plan.changes[route.id] = 1 /\ ~ route.useable )
                        /\ event = "recovered"
                            <=> ( plan.changes[route.id] = 1 /\ route.useable )
                        /\ event = "none" <=> plan.changes[route.id] = 0

\* C16: every change of a route's useable is read by a pass before the
\* next one, so that it produces exactly one event (failed for a change to
\* false, recovered for a change to true), no event is logged for a route
\* whose value did not change, and after a pass route_status holds the
\* value the pass read.
C16_OneEventPerChange ==
    /\ \A id \in DOMAIN changes : changes[id] <= 1
    /\ PassLoggedChanges

\* A route's useable has changed twice and no pass has run.
C16_Witness ==
    /\ ~ plan.ran
    /\ \E id \in DOMAIN changes : changes[id] = 2

\* Once the first pass has run, every change is read before the next one.
C16_AfterFirstPass ==
    plan.ran => C16_OneEventPerChange

---------------------------------------------------------------------------
(* C17 *)

\* The route entries a pass compares: the RouteSpecs it read and the
\* entries of the kernel snapshot.
Compared == plan.read \o plan.ip_routes

\* The destination with the two spellings of the default route made one.
DestClass(dest) == IF dest \in { "default", "0.0.0.0/0" } THEN "any" ELSE dest

\* The four fields of the structural match.
MatchKey(route) ==
    << DestClass(route.destination), route.gateway, route.interface,
       route.metric >>

\* The entry with the id, priority, protocol tag, rule and usable value of
\* another one.
Retagged(route, other) ==
    [ id |-> other.id, destination |-> route.destination,
      gateway |-> route.gateway, interface |-> route.interface,
      metric |-> route.metric, priority |-> other.priority,
      proto |-> other.proto, rule |-> other.rule, useable |-> other.useable ]

\* C17: the structural match is reflexive, symmetric and transitive, holds
\* exactly when destination (with "default" and "0.0.0.0/0" taken as the
\* same), gateway, interface and metric are equal, and does not depend on
\* id, priority, protocol tag, rule or usable value.  It is stated of the
\* entries of a pass, in the state the pass leaves before its first command.
C17_MatchIsEquivalence ==
    ( plan.ran /\ plan.results = << >> ) =>
        LET entries == Compared
            all == Positions(entries)
        IN  \A i \in all :
                /\ RouteEq(entries[i], entries[i])
                /\ \A j \in all :
                       LET equal == RouteEq(entries[i], entries[j])
                       IN  /\ equal <=> RouteEq(entries[j], entries[i])
                           /\ equal <=> MatchKey(entries[i]) = MatchKey(entries[j])
                           /\ equal =>
                                  \A k \in all :
                                      RouteEq(entries[j], entries[k])
                                          => RouteEq(entries[i], entries[k])
                /\ \A w \in Positions(plan.read) :
                       LET other == Retagged(entries[i], plan.read[w])
                       IN  \A j \in all :
                               RouteEq(other, entries[j])
                                   <=> RouteEq(entries[i], entries[j])

\* A pass compared a RouteSpec written "0.0.0.0/0" with a kernel entry
\* printed "default" that differs from it in id, priority, protocol tag and
\* rule, found them equal and left the route alone; another RouteSpec
\* differs from the first in the metric only and does not match it.
C17_Witness ==
    /\ plan.ran
    /\ plan.results = << >>
    /\ \E i \in Positions(plan.read), j \in Positions(plan.ip_routes) :
           /\ plan.read[i].destination = "0.0.0.0/0"
           /\ plan.ip_routes[j].destination = "default"
           /\ plan.read[i].id # plan.ip_routes[j].id
           /\ plan.read[i].priority # plan.ip_routes[j].priority
           /\ plan.read[i].proto # plan.ip_routes[j].proto
           /\ plan.read[i].rule # plan.ip_routes[j].rule
           /\ RouteEq(plan.read[i], plan.ip_routes[j])
           /\ HasId(plan.existing, plan.read[i].id)
           /\ \E k \in Positions(plan.read) :
                  /\ plan.read[k].metric # plan.read[i].metric
                  /\ plan.read[k].gateway = plan.read[i].gateway
                  /\ plan.read[k].destination = plan.read[i].destination
                  /\ ~ RouteEq(plan.read[k], plan.read[i])

---------------------------------------------------------------------------
(* C18 *)

\* The monitor task has ended: cancelled, or by an exception.
Ended(position) == position \in { "cancelled", "failed" }

\* C18: when clean() starts every monitor task has ended, and from then on
\* no usable value is written and the pass issues no command (the record of
\* the last pass and its results stay as they were).
C18_MonitorsEndBeforeCleanup ==
    cleanup.ran =>
        /\ \A id \in DOMAIN cleanup.tasks : Ended(cleanup.tasks[id])
        /\ \A i \in Positions(config_routes) :
               config_routes[i].useable = cleanup.read[i].useable
        /\ plan = cleanup.pass
        /\ main_pc \in { "clean", "exited" }

\* SIGINT came in the startup wait: clean() has started and a monitor task
\* is where it was, neither cancelled nor ended.
C18_Witness ==
    /\ cleanup.ran
    /\ ~ first_check_done_event
    /\ \E id \in DOMAIN cleanup.tasks : cleanup.tasks[id] = "first_check"

\* After the startup wait, clean() starts with every monitor ended.
C18_AfterStartup ==
    ( cleanup.ran /\ first_check_done_event ) => C18_MonitorsEndBeforeCleanup

---------------------------------------------------------------------------
(* C19 *)

\* The protocol tag is one of the agent's own.
OwnTag(proto) == proto = app_protocal \/ proto \in app_protocals

\* The routes of a kernel table that the agent did not install.
Foreign(table) == { r \in table : ~ OwnTag(r.proto) }

\* The remove calls of clean() for the entry at position j of what it read.
RemovalsOf(j) ==
    { k \in Positions(cleanup.calls) : cleanup.calls[k].route = cleanup.routes[j] }

\* clean() is over.
Cleaned == cleanup.ran /\ main_pc = "exited"

\* When the policy is on clean() calls remove_route once for every route
\* it read with one of the agent's tags and for no other route; when it is
\* off it calls nothing and the table is as it was.
CleanCallsOwnOnly ==
    Cleaned =>
        IF cleanup.enabled
        THEN \A j \in Positions(cleanup.routes) :
                 Cardinality(RemovalsOf(j))
                     = ( IF OwnTag(cleanup.routes[j].proto) THEN 1 ELSE 0 )
        ELSE cleanup.calls = << >> /\ kernel = cleanup.table

\* C19: clean() with the policy on removes every route with one of the
\* agent's tags and no other one, so that when its commands have succeeded
\* no route of the agent is left and the foreign routes are as they were;
\* with the policy off it issues no command.
C19_CleanupFrame ==
    /\ CleanCallsOwnOnly
    /\ ( /\ Cleaned
         /\ cleanup.enabled
         /\ \A k \in Positions(cleanup.results) : cleanup.results[k] = Ok )
           => /\ \A r \in kernel : ~ OwnTag(r.proto)
              /\ Foreign(kernel) = Foreign(cleanup.table)

\* clean() ran with the policy on and its one command succeeded: the route
\* of the agent is still in the table and a foreign route is gone.
C19_Witness ==
    /\ Cleaned
    /\ cleanup.enabled
    /\ cleanup.results = << Ok >>
    /\ \E r \in kernel : OwnTag(r.proto)
    /\ Foreign(kernel) # Foreign(cleanup.table)

\* clean() ran with the policy on over a table with a route of the agent
\* and a foreign one, or with the policy off over a route of the agent.
C19_CallsWitness ==
    /\ Cleaned
    /\ \E r \in cleanup.table : OwnTag(r.proto)
    /\ cleanup.enabled => cleanup.calls # << >> /\ Foreign(cleanup.table) # { }

---------------------------------------------------------------------------
(* C20 *)

\* The last health check ran a probe that started: no fault before the
\* first packet.
ProbeStarted ==
    /\ last_probe # NoProbe
    /\ probes(config_routes[1])
    /\ last_probe.fault = "none"

---------------------------------------------------------------------------
(* C21 *)

\* The sum of the 16-bit words of a packet as its receiver takes them, the
\* first byte of a word being its high byte and a last odd byte followed by
\* a zero byte.
RECURSIVE WireWords(_, _)
WireWords(data, n) ==
    IF n = 0 THEN 0
    ELSE IF n = 1 THEN data[1] * 256
    ELSE IF n % 2 = 1 THEN WireWords(data, n - 1) + data[n] * 256
    ELSE WireWords(data, n - 2) + data[n - 1] * 256 + data[n]

\* The carries above 16 bits added back until none is left.
RECURSIVE EndAround(_)
EndAround(sum) ==
    IF sum < 65536 THEN sum
    ELSE EndAround(( sum \div 65536 ) + ( sum % 65536 ))

\* The one's-complement 16-bit sum over a whole packet.
OnesComplementSum(data) == EndAround(WireWords(data, Len(data)))

\* C21: the packet request_ping builds from a packet whose checksum field
\* is zero differs from it in the checksum field only, and its
\* one's-complement 16-bit sum over the whole packet is 0xFFFF.
C21_ChecksumProperty ==
    icmp_packet.built =>
        /\ icmp_packet.zeroed[3] = 0 /\ icmp_packet.zeroed[4] = 0
        /\ Len(icmp_packet.packet) = Len(icmp_packet.zeroed)
        /\ \A k \in Positions(icmp_packet.packet) :
               k \notin { 3, 4 } => icmp_packet.packet[k] = icmp_packet.zeroed[k]
        /\ \A k \in Positions(icmp_packet.packet) :
               icmp_packet.packet[k] \in 0..255
        /\ OnesComplementSum(icmp_packet.packet) = 65535

\* A packet of odd length whose words sum to more than 16 bits and whose
\* checksum has two different bytes.
C21_Witness ==
    /\ icmp_packet.built
    /\ Len(icmp_packet.packet) % 2 = 1
    /\ WireWords(icmp_packet.zeroed, Len(icmp_packet.zeroed)) > 65535
    /\ icmp_packet.packet[3] # icmp_packet.packet[4]
    /\ OnesComplementSum(icmp_packet.packet) = 65535

---------------------------------------------------------------------------
(* C22 *)

\* The state a pass leaves before its first command.
PassMade == plan.ran /\ plan.results = << >>

\* The positions in the kernel snapshot of the routes to the destination of
\* the candidate.
SnapshotTo(candidate) ==
    RoutesTo(plan.ip_routes, normalize_dest(candidate.destination))

\* The kernel route the candidate is compared with: the first one of the
\* snapshot to its destination.
Compared22(candidate) ==
    plan.ip_routes[CHOOSE i \in SnapshotTo(candidate) :
                       \A k \in SnapshotTo(candidate) : i <= k]

\* The installed priority of a kernel route of the snapshot: the priority of
\* the first RouteSpec the pass read that matches it structurally, 255 when
\* there is none.
InstalledPriority(sys_route) ==
    LET matching == { i \in Positions(plan.read) :
                        RouteEq(plan.read[i], sys_route) }
    IN  IF matching = { } THEN 255
        ELSE plan.read[CHOOSE i \in matching : \A k \in matching : i <= k].priority

\* How often a route of that id is in the list.
Times(routes, id) == Cardinality({ k \in Positions(routes) : routes[k].id = id })

C22_InjectWitness ==
    /\ PassMade
    /\ \E k \in Positions(plan.inject) : SnapshotTo(plan.inject[k]) = { }

---------------------------------------------------------------------------
(* C23 *)

\* The positions of the RouteSpecs the pass read that match the kernel route
\* structurally, usable or not.
MatchingSpecs(sys_route) ==
    { i \in Positions(plan.read) : RouteEq(plan.read[i], sys_route) }

\* The kernel route is owned by no RouteSpec.
Unowned(sys_route) == MatchingSpecs(sys_route) = { }

\* The map of the pass gives every kernel route of the snapshot the
\* priority of a RouteSpec that matches it structurally, and 255 exactly
\* when none does.
InstalledPriorities ==
    \A k \in Positions(plan.ip_routes) :
        LET sys_route == plan.ip_routes[k]
            installed == plan.sys_route_config_map[sys_route.id]
        IN  /\ ~Unowned(sys_route) =>
                   \E i \in MatchingSpecs(sys_route) :
                       installed = plan.read[i].priority
            /\ installed = 255 <=> Unowned(sys_route)

\* The pass scheduled the kernel route for removal and the candidate for
\* injection.
Displaced(sys_route, candidate) ==
    /\ HasId(plan.remove, sys_route.id)
    /\ HasId(plan.inject, candidate.id)

\* The selected candidates to the destination of the kernel route whose
\* priority is below 255.
Displacers(sys_route) ==
    { j \in Positions(plan.selected) :
        /\ normalize_dest(plan.selected[j].destination)
               = normalize_dest(sys_route.destination)
        /\ plan.selected[j].priority < 255 }

---------------------------------------------------------------------------
(* C24 *)

\* The packets of the last probe that were answered, and the sum of their
\* round-trip times.
Answered == { k \in 1..ping_count : last_probe.replies[k] # Timeout }

RECURSIVE RttSum(_)
RttSum(packets) ==
    IF packets = { } THEN 0
    ELSE LET k == CHOOSE p \in packets : TRUE
         IN  last_probe.replies[k] + RttSum(packets \ { k })

\* The loss percentage of the last probe is at most the rule's
\* max_packet_loss: (lost / sent) * 100 <= max_packet_loss.
LossWithin(rule) ==
    ( ping_count - Cardinality(Answered) ) * 100
        <= rule.max_packet_loss * ping_count

\* The average round-trip time of the last probe is at most the rule's
\* max_latency_ms; the average of no reply is 0.
LatencyWithin(rule) ==
    IF Answered = { } THEN 0 <= rule.max_latency_ms
    ELSE RttSum(Answered) <= rule.max_latency_ms * Cardinality(Answered)

\* C24: a health check whose probe sent all its packets leaves the route
\* usable exactly when the loss percentage is at most the rule's
\* max_packet_loss and the average round-trip time at most the rule's
\* max_latency_ms, both values included, and returns that value.
C24_UsableWithinThresholds ==
    ProbeStarted =>
        LET route == config_routes[1]
            within == LossWithin(route.rule) /\ LatencyWithin(route.rule)
        IN  /\ route.useable = within
            /\ last_probe.returned = within

\* The last probe met the latency threshold exactly, 100 ms on average
\* for a rule that allows 100 ms, lost one packet of three where half may
\* be lost, and the route is usable.
C24_Witness ==
    /\ ProbeStarted
    /\ Cardinality(Answered) = 2
    /\ RttSum(Answered) = config_routes[1].rule.max_latency_ms * 2
    /\ config_routes[1].useable = TRUE

\* The last probe met the loss threshold exactly, no loss for a rule that
\* allows none, and the route is usable.
C24_LossBoundaryWitness ==
    /\ ProbeStarted
    /\ config_routes[1].rule.max_packet_loss = 0
    /\ Answered = 1..ping_count
    /\ config_routes[1].useable = TRUE

\* The last probe lost more than the rule allows and the route is unusable.
C24_LossWitness ==
    /\ ProbeStarted
    /\ ~ LossWithin(config_routes[1].rule)
    /\ LatencyWithin(config_routes[1].rule)
    /\ config_routes[1].useable = FALSE

---------------------------------------------------------------------------
(* C25 *)

\* The place of a mutator in the order of an apply.
Phase(fn) == CASE fn = "replace" -> 1 [] fn = "remove" -> 2 [] fn = "add" -> 3

\* The scheduled removal is paired: it is the first removal to its
\* destination and an injection to that destination is scheduled.
Paired(r) ==
    LET dest == normalize_dest(plan.remove[r].destination)
    IN  /\ r = FirstRemoval(dest)
        /\ RoutesTo(plan.inject, dest) # { }

\* The injection the removal is paired with.
PartnerOf(r) ==
    plan.inject[CHOOSE b \in RoutesTo(plan.inject,
                                normalize_dest(plan.remove[r].destination)) :
                    TRUE]

\* C25: the calls of one apply come in the order replace, remove, add;
\* every scheduled injection has one call, a replace or an add; every
\* scheduled removal has one call, the replace of the injection it is
\* paired with or a remove of its own; and no call is made for anything
\* else.
C25_OrderAndCoverage ==
    PassMade =>
        /\ \A i, j \in Positions(plan.calls) :
               i < j => Phase(plan.calls[i].fn) <= Phase(plan.calls[j].fn)
        /\ \A b \in Positions(plan.inject) :
               /\ Cardinality(CallsOf("replace", plan.inject[b]))
                      + Cardinality(CallsOf("add", plan.inject[b])) = 1
               /\ CallsOf("remove", plan.inject[b]) = { }
        /\ \A r \in Positions(plan.remove) :
               /\ CallsOf("replace", plan.remove[r]) = { }
               /\ CallsOf("add", plan.remove[r]) = { }
               /\ IF Paired(r)
                  THEN /\ CallsOf("remove", plan.remove[r]) = { }
                       /\ Cardinality(CallsOf("replace", PartnerOf(r))) = 1
                  ELSE Cardinality(CallsOf("remove", plan.remove[r])) = 1
        /\ Len(plan.calls)
               = Len(plan.inject)
                 + Cardinality({ r \in Positions(plan.remove) : ~ Paired(r) })

\* One apply made calls of the two kinds fn and gn.
MadeBoth(fn, gn) ==
    /\ PassMade
    /\ \E i, j \in Positions(plan.calls) :
          plan.calls[i].fn = fn /\ plan.calls[j].fn = gn

\* One apply removed a route and added another (two RouteSpecs give no
\* apply with calls of all three kinds).
C25_Witness == MadeBoth("remove", "add")

\* One apply replaced a route and removed another.
C25_ReplaceRemoveWitness == MadeBoth("replace", "remove")

\* One apply replaced a route and added another.
C25_ReplaceAddWitness == MadeBoth("replace", "add")

---------------------------------------------------------------------------
(* C26 *)

\* The entry of the snapshot for a route of the table the pass listed.
Listed(r) ==
    plan.ip_routes[CHOOSE k \in Positions(plan.ip_routes) :
                       /\ normalize_dest(plan.ip_routes[k].destination)
                              = normalize_dest(r.destination)
                       /\ plan.ip_routes[k].gateway = r.gateway
                       /\ plan.ip_routes[k].interface = r.interface
                       /\ plan.ip_routes[k].metric = r.metric]

\* A route to the same destination over the same gateway and interface
\* with the same metric is in the table now.
StillThere(r) ==
    \E k \in kernel :
        /\ k.destination = r.destination
        /\ k.gateway = r.gateway
        /\ k.interface = r.interface
        /\ k.metric = r.metric

\* The kernel route is the one a selected candidate of strictly better
\* priority was compared with.
Outranked(sys_route) ==
    \E j \in Positions(plan.selected) :
        /\ SnapshotTo(plan.selected[j]) # { }
        /\ Compared22(plan.selected[j]).id = sys_route.id
        /\ plan.selected[j].priority < InstalledPriority(sys_route)

\* The kernel route matches an unusable RouteSpec structurally.
MatchesUnusable(sys_route) ==
    \E i \in MatchingSpecs(sys_route) : plan.read[i].useable # TRUE

\* The kernel route is one the pass has no reason to remove.
NoReasonToRemove(sys_route) ==
    ~ Outranked(sys_route) /\ ~ MatchesUnusable(sys_route)

\* The pass schedules no removal of, and makes no remove_route call for, a
\* kernel route it has no reason to remove.
NeverScheduled ==
    /\ \A r \in Positions(plan.remove) : ~ NoReasonToRemove(plan.remove[r])
    /\ \A k \in Positions(plan.calls) :
          plan.calls[k].fn = "remove" => ~ NoReasonToRemove(plan.calls[k].route)

\* C26: a pass schedules no removal of and makes no delete for a kernel
\* route that no better selected candidate was compared with and that
\* matches no unusable RouteSpec, and every such route of the table the
\* pass listed is in the table during and after the pass.
C26_LingeringRouteStays ==
    plan.ran =>
        /\ NeverScheduled
        /\ \A r \in plan.table : NoReasonToRemove(Listed(r)) => StillThere(r)

\* The half of C26 about the plan and the calls of the pass.
C26_NeverScheduled == plan.ran => NeverScheduled

\* A pass is over, it made remove_route calls and no other, and a route it
\* had no reason to remove is gone from the table.
C26_Witness ==
    /\ plan.ran
    /\ main_pc = "wait"
    /\ plan.calls # << >>
    /\ \A k \in Positions(plan.calls) : plan.calls[k].fn = "remove"
    /\ \E r \in plan.table : NoReasonToRemove(Listed(r)) /\ ~ StillThere(r)

---------------------------------------------------------------------------
(* C27 *)

\* The mutator call of SpecCall, its route, the commands it has run and how
\* they ended.
Called(fn) == plan.calls[1].fn = fn

CalledRoute == plan.calls[1].route

\* The call has returned.
CallOver == main_pc = "wait" /\ Len(plan.returned) = 1

\* The command without its gateway.
OnLink(cmd) == [ cmd EXCEPT !.gateway = NoneStr ]

\* C27: an add_route call whose command the kernel rejected for its
\* gateway runs one more command, the same without the gateway, and returns
\* True exactly when that one succeeded; an add_route call for a route
\* without gateway runs one command.
C27_AddRetriesOnce ==
    ( Called("add") /\ CallOver ) =>
        /\ plan.results[1] = InvalidGateway =>
               /\ Len(plan.cmds) = 2
               /\ plan.cmds[2] = OnLink(plan.cmds[1])
               /\ plan.returned[1] = ( plan.results[2] = Ok )
        /\ CalledRoute.gateway = NoneStr => Len(plan.cmds) = 1

\* An add_route call has returned True after the kernel rejected its
\* gateway and the retry without the gateway failed.
C27_Witness ==
    /\ Called("add")
    /\ CallOver
    /\ Len(plan.results) >= 2
    /\ plan.results[1] = InvalidGateway
    /\ plan.cmds[2] = OnLink(plan.cmds[1])
    /\ plan.results[2] # Ok
    /\ plan.returned[1] = TRUE

\* An add_route call has run its command without the gateway twice.
C27_TwoRetriesWitness ==
    /\ Called("add")
    /\ CallOver
    /\ Cardinality({ k \in Positions(plan.cmds) :
                       plan.cmds[k].gateway = NoneStr }) = 2

---------------------------------------------------------------------------
(* C28 *)

\* The commands of the call from the k-th on are add commands with the
\* arguments of add_route's first command or, after an invalid gateway,
\* the same without the gateway, and the call returned whether the last
\* one succeeded: add_route took over at the k-th command.
AddFrom(k) ==
    /\ Len(plan.cmds) >= k
    /\ plan.cmds[k] = install_cmd("add", CalledRoute, TRUE)
    /\ \A i \in k..Len(plan.cmds) :
          /\ plan.cmds[i].verb = "add"
          /\ plan.cmds[i] \in { plan.cmds[k], OnLink(plan.cmds[k]) }
    /\ plan.returned[1] = ( plan.results[Len(plan.results)] = Ok )

\* C28: a replace_route call runs one replace command with the arguments
\* add_route would give its add; when that succeeds it returns True; when
\* it ends with route-not-found, add_route takes over and its result is
\* returned; when it ends with invalid-gateway, the replace is run once
\* more without the gateway: True when that succeeds, add_route taking over
\* when it ends with route-not-found, False otherwise; any other failure of
\* the first command returns False.
C28_ReplaceFallsBack ==
    ( Called("replace") /\ CallOver ) =>
        /\ plan.cmds[1]
               = [ install_cmd("add", CalledRoute, TRUE) EXCEPT
                     !.verb = "replace" ]
        /\ CASE plan.results[1] = Ok ->
                   Len(plan.cmds) = 1 /\ plan.returned[1] = TRUE
             [] plan.results[1] = RouteNotFound -> AddFrom(2)
             [] plan.results[1] = InvalidGateway ->
                   /\ plan.cmds[2] = OnLink(plan.cmds[1])
                   /\ CASE plan.results[2] = Ok ->
                              Len(plan.cmds) = 2 /\ plan.returned[1] = TRUE
                        [] plan.results[2] = RouteNotFound -> AddFrom(3)
                        [] OTHER ->
                              Len(plan.cmds) = 2 /\ plan.returned[1] = FALSE
             [] OTHER -> Len(plan.cmds) = 1 /\ plan.returned[1] = FALSE

\* A replace_route call has returned after its replace was rejected for the
\* gateway, the replace without the gateway found no route, and add_route
\* added the route.
C28_Witness ==
    /\ Called("replace")
    /\ CallOver
    /\ plan.results = << InvalidGateway, RouteNotFound, Ok >>
    /\ plan.cmds[3].verb = "add"
    /\ plan.returned[1] = TRUE

\* A replace_route call has returned what add_route returned after the
\* replace found no route.
C28_NotFoundWitness ==
    /\ Called("replace")
    /\ CallOver
    /\ plan.results = << RouteNotFound, OtherError >>
    /\ plan.returned[1] = FALSE

---------------------------------------------------------------------------
(* C29 *)

\* The first command of the call failed in a way the mutator does not
\* answer: any failure of remove_route's command, a failure of add_route's
\* or replace_route's that is neither invalid-gateway nor route-not-found.
FailedForGood ==
    /\ Len(plan.results) >= 1
    /\ IF Called("remove") THEN plan.results[1] # Ok
       ELSE plan.results[1] = OtherError

\* C29: a mutator call whose command failed that way has run that one
\* command and returned False.
C29_NoRetryOnOther ==
    FailedForGood =>
        /\ CallOver
        /\ Len(plan.cmds) = 1
        /\ plan.returned[1] = FALSE

\* A remove_route call has returned False after the kernel found no route
\* to delete.
C29_Witness ==
    /\ Called("remove")
    /\ FailedForGood
    /\ plan.results[1] = RouteNotFound
    /\ plan.returned = << FALSE >>

\* An add_route and a replace_route call have returned False after a
\* failure of the third class.
C29_AddWitness == Called("add") /\ FailedForGood /\ plan.returned = << FALSE >>

C29_ReplaceWitness ==
    Called("replace") /\ FailedForGood /\ plan.returned = << FALSE >>

---------------------------------------------------------------------------
(* C30 *)

\* The accesses the claim is about: a monitor's writes of useable, the
\* main task's reads of it, and every access to route_status and
\* ping_warnings.
Guarded ==
    { a \in accesses :
        \/ a.object = "useable" /\ a.task = "monitor" /\ a.kind = "write"
        \/ a.object = "useable" /\ a.task = "main" /\ a.kind = "read"
        \/ a.object \in { "route_status", "ping_warnings" } }

\* C30: there is one lock that the accessing task held at every write of
\* useable by a monitor, every read of it by the main task and every access
\* to route_status and ping_warnings.
C30_OneLockGuardsAll ==
    \E lock \in { route_lock, event_lock } :
        \A a \in Guarded : lock \in a.held

\* A monitor has written useable holding no lock and changed ping_warnings
\* holding event_lock only, and the main task has read useable and
\* route_status holding route_lock only.
C30_Witness ==
    /\ Access("monitor", "useable", "write", { }) \in accesses
    /\ Access("monitor", "ping_warnings", "write", { event_lock }) \in accesses
    /\ Access("main", "useable", "read", { route_lock }) \in accesses
    /\ Access("main", "route_status", "read", { route_lock }) \in accesses

---------------------------------------------------------------------------
(* C31 *)

\* A step in which a command ran: the log of the pass grew.
CommandRan ==
    /\ plan.ran
    /\ plan'.ran
    /\ Len(plan'.cmds) > Len(plan.cmds)

\* C31: while the agent runs the kernel table changes only in a step in
\* which a command of the main task's mutator call in progress ran; such a
\* step runs one command, for the destination of that call, takes at most
\* one route out of the table and puts at most one in, both to that
\* destination, and no monitor moves in it.
C31_CommandsSerialized ==
    [][ /\ kernel' # kernel => CommandRan
        /\ CommandRan =>
              /\ main_pc = "apply"
              /\ call.fn \in { "add", "remove", "replace" }
              /\ Len(plan'.cmds) = Len(plan.cmds) + 1
              /\ plan'.cmds[Len(plan'.cmds)].dest = cmd_dest(call.route)
              /\ Cardinality(kernel \ kernel') <= 1
              /\ Cardinality(kernel' \ kernel) <= 1
              /\ \A r \in ( kernel \ kernel' ) \cup ( kernel' \ kernel ) :
                    normalize_dest(r.destination)
                        = normalize_dest(call.route.destination)
              /\ UNCHANGED << route_tasks, config_routes, prev_status >>
      ]_vars

\* The second command of an apply is about to run and the first has
\* changed the table.
C31_Witness ==
    /\ plan.ran
    /\ main_pc = "apply"
    /\ Len(plan.cmds) >= 1
    /\ kernel # plan.table

---------------------------------------------------------------------------
(* C32 *)

\* A route command of the main task is in progress.
CommandInProgress == main_pc = "apply" /\ call.fn \in { "add", "remove", "replace" }

\* The monitors that are in their loop, between two checks.
Looping == { id \in Ids(config_routes) : route_tasks[id] = "loop" }

\* C32: while a route command is in progress every monitor that is in its
\* loop can be scheduled for its next check.
C32_SchedulerNeverBlocked ==
    CommandInProgress => \A id \in Looping : CanCheck(id)

\* A route command is in progress, a monitor is in its loop and cannot be
\* scheduled until the command and the rest of the pass have ended.
C32_Witness ==
    /\ CommandInProgress
    /\ \E id \in Looping : ~ CanCheck(id)

---------------------------------------------------------------------------
(* C33 *)

\* The step is a reconciliation pass: main_loop consumes the change event.
PassStep ==
    /\ main_pc = "wait"
    /\ interface_change_event
    /\ plan' # plan

\* The fields of a RouteSpec that nothing writes after the configuration
\* was loaded.
FixedFields(route) ==
    << route.id, route.gateway, route.interface, route.metric,
       route.priority, route.proto, route.rule >>

\* C33: in every step the list of RouteSpecs keeps its length and each
\* RouteSpec its id, gateway, interface, metric, priority, protocol tag and
\* rule; a destination changes only in a pass and only from 0.0.0.0/0 to
\* default; useable changes only in a step of the route's own monitor,
\* never in a pass and never together with another route's.
C33_PassWritesDestinationOnly ==
    [][ /\ Len(config_routes') = Len(config_routes)
        /\ \A i \in Positions(config_routes) :
              LET old == config_routes[i]
                  new == config_routes'[i]
              IN  /\ FixedFields(new) = FixedFields(old)
                  /\ new.destination # old.destination =>
                        /\ PassStep
                        /\ old.destination = "0.0.0.0/0"
                        /\ new.destination = "default"
                  /\ new.useable # old.useable =>
                        /\ ~ PassStep
                        /\ MainSuspended
                        /\ route_tasks[old.id] \in { "first_check", "loop" }
                        /\ route_tasks'[old.id] # "failed"
                        /\ \A k \in Positions(config_routes) \ { i } :
                              config_routes'[k] = config_routes[k]
      ]_vars

\* A pass has rewritten the destination of a RouteSpec, whose useable a
\* monitor had set before, and left the rest as it read it.
C33_Witness ==
    /\ plan.ran
    /\ \E i \in Positions(plan.read) :
          /\ plan.read[i].destination = "0.0.0.0/0"
          /\ config_routes[i].destination = "default"
          /\ plan.read[i].useable = TRUE
          /\ config_routes[i] = [ plan.read[i] EXCEPT !.destination = "default" ]

----------------------------------------------------------------------------
(* C34 *)

\* The add_route and replace_route calls of the pass, by their position in
\* the list of its mutator calls.
InstallCalls == { k \in Positions(plan.calls) : plan.calls[k].fn \in { "add", "replace" } }

\* The RouteSpec was usable when the pass read it and is the best usable one
\* of its destination group.
ReadUsableAndBest(route) ==
    \E i \in Positions(plan.read) :
        /\ plan.read[i].id = route.id
        /\ plan.read[i].useable = TRUE
        /\ IsBest(plan.read, normalize_dest(route.destination), i)

\* C34: every add_route or replace_route call of a reconciliation pass is
\* for a RouteSpec that was usable when the pass read it and that is the
\* selected candidate of its destination, the pass makes at most one such
\* call per normalized destination, and every add or replace command the
\* pass runs belongs to one of these calls.
C34_InstallsSelectedUsable ==
    plan.ran =>
        /\ \A k \in InstallCalls :
               /\ ReadUsableAndBest(plan.calls[k].route)
               /\ HasId(plan.selected, plan.calls[k].route.id)
               /\ \A l \in InstallCalls :
                      normalize_dest(plan.calls[l].route.destination)
                          = normalize_dest(plan.calls[k].route.destination)
                      => l = k
        /\ \A n \in Positions(plan.cmds) :
               plan.cmds[n].verb \in { "add", "replace" } =>
                   \E k \in InstallCalls :
                       plan.cmds[n].dest = cmd_dest(plan.calls[k].route)

\* A pass over two RouteSpecs of one destination, the first of them
\* unusable, that has run an add or replace command for the second.
C34_Witness ==
    /\ plan.ran
    /\ \E i, j \in Positions(plan.read) :
           /\ i < j
           /\ normalize_dest(plan.read[i].destination)
                  = normalize_dest(plan.read[j].destination)
           /\ ~ plan.read[i].useable
           /\ plan.read[i].priority < plan.read[j].priority
           /\ \E k \in InstallCalls : plan.calls[k].route.id = plan.read[j].id
    /\ \E n \in Positions(plan.cmds) : plan.cmds[n].verb \in { "add", "replace" }

----------------------------------------------------------------------------
(* C35 *)

\* The pass has issued its last mutation command and main_loop is back at
\* its wait.
PassOver == plan.ran /\ main_pc = "wait"

\* The kernel table now holds a route to the normalized destination.
KernelReaches(dest) ==
    \E r \in kernel : normalize_dest(r.destination) = dest

\* The first half of C35: the snapshot of the pass holds a route that
\* matches the existing candidate structurally.
ExistingIsInSnapshot(candidate) == HasEqual(plan.ip_routes, candidate)

\* The second half of C35: after the pass the kernel table holds a route to
\* the destination of the existing candidate.
ExistingStaysReachable(candidate) ==
    PassOver => KernelReaches(normalize_dest(candidate.destination))

\* C35 as stated: a selected candidate is filed as existing only if the
\* kernel snapshot of the pass holds a route that matches it structurally,
\* and after the pass the kernel table still holds a route to the
\* destination of every candidate filed as existing.
C35_ExistingIsInstalled ==
    plan.ran =>
        \A e \in Positions(plan.existing) :
            /\ ExistingIsInSnapshot(plan.existing[e])
            /\ ExistingStaysReachable(plan.existing[e])

\* A finished pass whose commands all succeeded filed a candidate as
\* existing that no route of the snapshot matched, and the kernel table
\* holds no route to its destination any more.
C35_Witness ==
    /\ PassOver
    /\ \A n \in Positions(plan.results) : plan.results[n] = Ok
    /\ \E e \in Positions(plan.existing) :
           /\ ~ ExistingIsInSnapshot(plan.existing[e])
           /\ ~ KernelReaches(normalize_dest(plan.existing[e].destination))

----------------------------------------------------------------------------
(* C36 *)

\* Every mutation command of the pass succeeded.
AllSucceeded == \A n \in Positions(plan.results) : plan.results[n] = Ok

\* What a second pass would plan now: on the kernel table as it is and the
\* RouteSpecs as they are, with the usable values of the first pass.
second_pass == make_plan(get_ip_route(kernel), config_routes)

\* The usable values are those the finished pass read.
SameUsable ==
    \A i \in Positions(config_routes) :
        config_routes[i].useable = plan.read[i].useable

\* C36 as stated: after a pass whose mutation commands all succeeded, a
\* second pass with the same usable values on the resulting kernel table
\* has empty inject and remove lists and makes no mutator call.
C36_Idempotent ==
    ( PassOver /\ AllSucceeded /\ SameUsable ) =>
        /\ second_pass.inject = << >>
        /\ second_pass.remove = << >>
        /\ apply_routes(second_pass.inject, second_pass.remove) = << >>

\* A pass over RouteSpecs no two of which are structurally identical ran a
\* command, all of them with success, and a second pass with the same
\* usable values would run a command again.
C36_Witness ==
    /\ PassOver /\ AllSucceeded /\ SameUsable
    /\ \A i \in Positions(plan.read) : NoTwin(plan.read[i])
    /\ plan.cmds # << >>
    /\ apply_routes(second_pass.inject, second_pass.remove) # << >>

----------------------------------------------------------------------------
(* C37 *)

\* The commands of the pass that installed a route which is in the kernel
\* table now: add or replace commands that succeeded.
InstalledBy ==
    { n \in Positions(plan.cmds) :
        /\ plan.cmds[n].verb \in { "add", "replace" }
        /\ plan.results[n] = Ok
        /\ CmdRoute(plan.cmds[n]) \in kernel }

\* The RouteSpec the command was run for: the route of the add_route or
\* replace_route call to its destination.
SpecOf(n) ==
    plan.calls[CHOOSE k \in InstallCalls :
                   cmd_dest(plan.calls[k].route) = plan.cmds[n].dest].route

\* What a later pass lists for the route the command installed.
ListedLater(n) ==
    LET later == get_ip_route(kernel)
    IN  later[CHOOSE k \in Positions(later) :
                  /\ later[k].destination = CmdRoute(plan.cmds[n]).destination
                  /\ later[k].metric = plan.cmds[n].metric]

\* The RouteSpecs as a later pass reads them when the spec has become
\* unusable.
WithUnusable(route) ==
    [ i \in Positions(config_routes) |->
        IF config_routes[i].id = route.id
        THEN [ config_routes[i] EXCEPT !.useable = FALSE ]
        ELSE config_routes[i] ]

\* A later pass gives the installed route the priority of its spec.
CorrelatedLater(n) ==
    sys_route_config_map(get_ip_route(kernel), config_routes)[ListedLater(n).id]
        = SpecOf(n).priority

\* A later pass in which the spec is unusable schedules the installed
\* route for removal.
RemovedWhenUnusable(n) ==
    HasId(make_plan(get_ip_route(kernel), WithUnusable(SpecOf(n))).remove,
          ListedLater(n).id)

\* The command was the retry without the gateway of a route that has one.
GatewayDropped(n) ==
    /\ plan.cmds[n].gateway = NoneStr
    /\ SpecOf(n).gateway # NoneStr

\* C37 as stated: a kernel route the agent installed for a RouteSpec, the
\* retry without gateway included, is correlated with that spec by a later
\* pass: its installed priority is the priority of the spec, and a pass in
\* which the spec is unusable schedules it for removal.
C37_InstalledIsCorrelated ==
    PassOver =>
        \A n \in InstalledBy :
            NoTwin(SpecOf(n)) =>
                /\ CorrelatedLater(n)
                /\ RemovedWhenUnusable(n)

\* What holds of C37: the same for the routes installed by a command that
\* kept the gateway of the spec.
C37_CorrelatedWithGateway ==
    PassOver =>
        \A n \in InstalledBy :
            ( NoTwin(SpecOf(n)) /\ ~ GatewayDropped(n) ) =>
                /\ CorrelatedLater(n)
                /\ RemovedWhenUnusable(n)

\* A finished pass installed a route through the retry without gateway; a
\* later pass gives it priority 255 and does not remove it when the spec
\* is unusable.
C37_Witness ==
    /\ PassOver
    /\ \E n \in InstalledBy :
           /\ NoTwin(SpecOf(n))
           /\ GatewayDropped(n)
           /\ sys_route_config_map(get_ip_route(kernel),
                                     config_routes)[ListedLater(n).id] = 255
           /\ ~ RemovedWhenUnusable(n)

----------------------------------------------------------------------------
(* C38 *)

\* The mutator call has returned to apply_routes.
CallReturned == main_pc = "wait" /\ call = NoCall

\* C38 as stated: every call of add_route, remove_route or replace_route
\* returns, also on a kernel that keeps answering invalid-gateway to the
\* command with a gateway and route-not-found to the retry without it.
C38_CallReturns == <> CallReturned

\* An add_route call has run MaxRecorded commands, by turns refused for the
\* gateway and for a route not found, and is at its first command again.
C38_Witness ==
    /\ Called("add")
    /\ main_pc = "apply"
    /\ call = StartCall(plan.calls[1])
    /\ Len(plan.cmds) = MaxRecorded
    /\ \A n \in Positions(plan.results) :
           plan.results[n] = IF n % 2 = 1 THEN InvalidGateway ELSE RouteNotFound

----------------------------------------------------------------------------
(* C39 *)

\* The packets the prober counted as received that answer the request of
\* another prober.
CountedForeign(p) ==
    { k \in Positions(probers[p].counted) : probers[p].counted[k].answers # p }

\* C39 as stated: with several probers running at the same time in one
\* process, a prober counts a packet as received only when it is the echo
\* reply to its own request; a reply to the request of another prober with
\* the same sequence number is never counted.
C39_CountsOwnRepliesOnly ==
    \A p \in DOMAIN probers : CountedForeign(p) = { }

\* What holds of C39: a prober counts no reply to the request of a prober
\* on another interface.
C39_SeparateInterfaces ==
    \A p \in DOMAIN probers :
        \A k \in CountedForeign(p) :
            probers[probers[p].counted[k].answers].iface = probers[p].iface

\* A probe has ended with every packet counted as received and no loss,
\* within the rule, although its target answered none of its requests:
\* every packet it counted is a reply, from another host, to the request of
\* the other prober with the same sequence number.
C39_Witness ==
    \E p \in DOMAIN probers :
        /\ probers[p].pc = "done"
        /\ probers[p].received = ping_count
        /\ ~ LossPercentGt([ sent |-> probers[p].sent,
                             lost |-> probers[p].sent - probers[p].received ],
                           PingRule.max_packet_loss)
        /\ \A k \in Positions(probers[p].counted) :
              /\ probers[p].counted[k].answers # p
              /\ probers[p].counted[k].addr # probers[p].host
              /\ probers[p].counted[k].data_Sequence = k

----------------------------------------------------------------------------
(* C40 *)

\* The usable values of the RouteSpecs, in configuration order.
UsableValues(routes) == [ i \in Positions(routes) |-> routes[i].useable ]

\* C40: from the step in which a pass reads the kernel table to the step in
\* which it issues its last mutation command no RouteSpec's usable value
\* changes and no monitor task moves: every step of the pass leaves the
\* usable values as they were, and they are the values the pass read.
C40_ConsistentSnapshot ==
    [][ ( PassStep \/ main_pc = "apply" ) =>
            /\ UsableValues(config_routes') = UsableValues(config_routes)
            /\ UsableValues(plan'.read) = UsableValues(config_routes')
            /\ prev_status' = prev_status
            /\ main_pc = "apply" => route_tasks' = route_tasks
      ]_vars

\* A pass has issued a command and has another one to issue while a monitor
\* is in its loop, after a change of a usable value that the pass read.
C40_Witness ==
    /\ main_pc = "apply"
    /\ plan.cmds # << >>
    /\ \E id \in Ids(config_routes) :
          /\ route_tasks[id] = "loop"
          /\ plan.changes[id] >= 1
    /\ UsableValues(plan.read) = UsableValues(config_routes)

=============================================================================
